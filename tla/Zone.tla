-------------------------------- MODULE Zone --------------------------------
(* The .env of each zone and who rewrites it: the form of the panel's       *)
(* Configurations page (GET the file, edit it, PUT the whole text back) and *)
(* the model swaps of the AI swap page, which the zone-agent carries out:   *)
(* change one line of .env, then have docker compose build and recreate the *)
(* container with the .env it reads when it starts; the downloads of models *)
(* are left out.  No lock and no version guards the file; an answer is put  *)
(* into whatever form is open when it comes.                                *)
EXTENDS Naturals, Sequences

CONSTANTS
  Zones, AiZone,  \* the zones; the one whose agent swaps models
  Keys,           \* the services whose model can be swapped
  Catalog,        \* [Keys -> SUBSET Models]: no model serves two services
  First,          \* [Keys -> Models]: the model each starts with
  Gets, Puts, Builds, \* bound the requests under way, rebuilds among them
  Swaps,          \* the model swaps that are made
  MaxActs, MaxFaults, None

Models == UNION {Catalog[k] : k \in Keys}

ASSUME ZoneAssumption ==
  /\ AiZone \in Zones /\ None \notin Zones \union Swaps /\ Keys # {}
  /\ First \in [Keys -> Models] /\ \A k \in Keys : First[k] \in Catalog[k]
  /\ \A j, k \in Keys : j # k => Catalog[j] \cap Catalog[k] = {}
  /\ Builds \cap Swaps = {} /\ None \notin Models
  /\ MaxActs \in Nat /\ MaxFaults \in Nat

VARIABLES
  env,     \* the .env file of each zone
  run,     \* the model each service of AiZone runs with
  build,   \* the compose runs of AiZone, by the rebuild or swap they are part of
  page,    \* the form of the Configurations page
  get, put, swap,
  acts, faults,
  mixed    \* history: zones whose form got another zone's answer, or none

host == <<env, run, build>>
vars == <<host, page, get, put, swap, acts, faults, mixed>>
-----------------------------------------------------------------------------
\* home: the zone the text was read from; lines[k]: the assignments of k in it,
\* one or, after an edit, two
Assigned == UNION {[1..n -> Models] : n \in 0..2}
File  == [home : Zones \union {None}, lines : [Keys -> Assigned]]
Blank == [home |-> None, lines |-> [k \in Keys |-> <<>>]]

\* parseDotEnv, and docker compose: the last assignment counts
Value(file, k) == IF file.lines[k] = <<>> THEN First[k] ELSE file.lines[k][Len(file.lines[k])]

\* faulty: the line is appended without a look at the file
AppendKey(file, k, m) == [file EXCEPT !.lines[k] = Append(@, m)]

\* writeDotEnvKey: the first assignment is replaced, a missing one appended
WithKey(file, k, m) ==
  [file EXCEPT !.lines[k] = IF @ = <<>> THEN <<m>> ELSE [@ EXCEPT ![1] = m]]

ClosedPage == [zone |-> None, text |-> Blank, loading |-> FALSE, dirty |-> FALSE]
FreeReq  == [pc |-> "free", zone |-> None, text |-> Blank]
NoBuild  == [key |-> CHOOSE k \in Keys : TRUE, model |-> None]
FreeSwap == [pc |-> "free", key |-> CHOOSE k \in Keys : TRUE, model |-> None,
             seen |-> Blank, lone |-> FALSE]

Init ==
  /\ env = [z \in Zones |-> [home |-> z, lines |-> [k \in Keys |-> <<First[k]>>]]]
  /\ run = First /\ build = [b \in Builds \union Swaps |-> NoBuild]
  /\ page = ClosedPage
  /\ get = [g \in Gets |-> FreeReq] /\ put = [p \in Puts |-> FreeReq]
  /\ swap = [s \in Swaps |-> FreeSwap]
  /\ acts = 0 /\ faults = 0 /\ mixed = {}

Act   == acts < MaxActs /\ acts' = acts + 1 /\ UNCHANGED faults
Fault == faults < MaxFaults /\ faults' = faults + 1 /\ UNCHANGED acts
Free(reqs, r) == [reqs EXCEPT ![r] = FreeReq]

\* somebody but s writes the file: a swap under way is no longer alone
NotAlone(s) == [q \in Swaps |-> IF q = s THEN swap[q] ELSE [swap[q] EXCEPT !.lone = FALSE]]
-----------------------------------------------------------------------------
(* The Configurations page. *)

\* loadModalData up to its fetch
Fetch(g, z) ==
  /\ get[g].pc = "free"
  /\ get' = [get EXCEPT ![g] = [pc |-> "sent", zone |-> z, text |-> Blank]]

\* faulty: the text area is there before the file is
OpenUnguarded(g, z) ==
  /\ Act /\ page.zone = None /\ Fetch(g, z)
  /\ page' = [page EXCEPT !.zone = z]
  /\ UNCHANGED <<host, put, swap, mixed>>

Open(g, z) ==
  /\ Act /\ page.zone = None /\ Fetch(g, z)
  /\ page' = [page EXCEPT !.zone = z, !.loading = TRUE]
  /\ UNCHANGED <<host, put, swap, mixed>>

Reload(g) ==
  /\ Act /\ page.zone # None /\ ~page.loading /\ Fetch(g, page.zone)
  /\ page' = [page EXCEPT !.loading = TRUE]
  /\ UNCHANGED <<host, put, swap, mixed>>

\* setModalZone(null): the fetches under way are not cancelled
Close ==
  /\ page.zone # None
  /\ page' = [page EXCEPT !.zone = None, !.text = Blank, !.dirty = FALSE]
  /\ UNCHANGED <<host, get, put, swap, acts, faults, mixed>>

\* loadModalData from the answer on, whose form it may no longer be
Load(g) ==
  /\ get[g].pc = "read"
  /\ get' = Free(get, g)
  /\ page' = [page EXCEPT !.text = get[g].text, !.dirty = FALSE, !.loading = FALSE]
  /\ mixed' = IF page.zone # get[g].zone THEN mixed \union ({page.zone} \ {None}) ELSE mixed
  /\ UNCHANGED <<host, put, swap, acts, faults>>

\* ... and from the error on: the text is gone, "dirty" is as it was
LoadFails(g) ==
  /\ get[g].pc # "free" /\ Fault
  /\ get' = Free(get, g)
  /\ page' = [page EXCEPT !.text = Blank, !.loading = FALSE]
  /\ mixed' = mixed \union ({page.zone} \ {None})
  /\ UNCHANGED <<host, put, swap>>

\* the user changes the last assignment of a key, or adds one
Edit(k, m) ==
  /\ Act /\ page.zone # None /\ ~page.loading
  /\ \E line \in {Len(page.text.lines[k]), Len(page.text.lines[k]) + 1} \cap (1..2) :
       page' = [page EXCEPT !.dirty = TRUE,
                            !.text.lines[k] = [i \in 1..line |-> IF i = line THEN m ELSE @[i]]]
  /\ UNCHANGED <<host, get, put, swap, mixed>>

\* saveEnv: the text goes to the zone of the open form; the button stays as it
\* is, and the user may go on typing
Save(p) ==
  /\ Act /\ page.zone # None /\ ~page.loading /\ page.dirty /\ put[p].pc = "free"
  /\ put' = [put EXCEPT ![p] = [pc |-> "sent", zone |-> page.zone, text |-> page.text]]
  /\ UNCHANGED <<host, page, get, swap, mixed>>

\* the form is not dirty any more, whatever was typed or opened meanwhile
Saved(p) ==
  /\ put[p].pc = "written"
  /\ put' = Free(put, p)
  /\ page' = [page EXCEPT !.dirty = FALSE]
  /\ UNCHANGED <<host, get, swap, acts, faults, mixed>>

SaveFails(p) ==
  /\ put[p].pc # "free" /\ Fault
  /\ put' = Free(put, p)
  /\ UNCHANGED <<host, page, get, swap, mixed>>
-----------------------------------------------------------------------------
(* The zone-agent. *)

\* handleEnv, GET
Read(g) ==
  /\ get[g].pc = "sent"
  /\ get' = [get EXCEPT ![g].pc = "read", ![g].text = env[get[g].zone]]
  /\ UNCHANGED <<host, page, put, swap, acts, faults, mixed>>

\* handleEnv, PUT: a new file is renamed over the old one
Write(p) ==
  LET z == put[p].zone IN
  /\ put[p].pc = "sent"
  /\ env' = [env EXCEPT ![z] = put[p].text]
  /\ put' = [put EXCEPT ![p].pc = "written", ![p].text = Blank]
  /\ swap' = IF z = AiZone THEN NotAlone(None) ELSE swap
  /\ UNCHANGED <<run, build, page, get, acts, faults, mixed>>

\* composeUpBuildArgs: docker compose reads .env, and when the image is built
\* the container comes up with what was read
Begin(b, k) == build' = [build EXCEPT ![b] = [key |-> k, model |-> Value(env[AiZone], k)]]
Recreate(b) == run' = [run EXCEPT ![build[b].key] = build[b].model]
Over(b)     == build' = [build EXCEPT ![b] = NoBuild]

Building(k) == {b \in Builds \union Swaps : build[b].model # None /\ build[b].key = k}

\* handleRebuild of one service; with "all" it is done for each in turn.  The
\* swaps of the service whose model is not in .env yet are not alone any more.
Rebuild(b, k) ==
  /\ Act /\ page.zone = AiZone /\ build[b].model = None /\ Begin(b, k)
  /\ swap' = [q \in Swaps |-> IF swap[q].key = k /\ swap[q].pc \in {"started", "read"}
                              THEN [swap[q] EXCEPT !.lone = FALSE] ELSE swap[q]]
  /\ UNCHANGED <<env, run, page, get, put, mixed>>

Rebuilt(b) ==
  /\ build[b].model # None /\ Recreate(b) /\ Over(b)
  /\ UNCHANGED <<env, page, get, put, swap, acts, faults, mixed>>

\* the build fails or its browser goes, before the container is there or after
RebuildFails(b) ==
  /\ build[b].model # None /\ Fault /\ Over(b)
  /\ Recreate(b) \/ UNCHANGED run
  /\ UNCHANGED <<env, page, get, put, swap, mixed>>

\* handleAISwapSwap, up to the removal of the model that .env names
StartSwap(s, k, m) ==
  /\ swap[s].pc = "free"
  /\ swap' = [NotAlone(s) EXCEPT ![s] =
       [pc |-> "started", key |-> k, model |-> m, seen |-> Blank,
        lone |-> Building(k) = {} /\ \A q \in Swaps \ {s} : swap[q].pc \in {"free", "done"}]]
  /\ UNCHANGED <<host, page, get, put, acts, faults, mixed>>

\* writeDotEnvKey: ReadFile ...
ReadEnv(s) ==
  /\ swap[s].pc = "started"
  /\ swap' = [swap EXCEPT ![s].pc = "read", ![s].seen = env[AiZone]]
  /\ UNCHANGED <<host, page, get, put, acts, faults, mixed>>

\* ... and Rename
WriteEnv(s) ==
  /\ swap[s].pc = "read"
  /\ env' = [env EXCEPT ![AiZone] = WithKey(swap[s].seen, swap[s].key, swap[s].model)]
  /\ swap' = [NotAlone(s) EXCEPT ![s].pc = "written", ![s].seen = Blank]
  /\ UNCHANGED <<run, build, page, get, put, acts, faults, mixed>>

Compose(s) ==
  /\ swap[s].pc = "written" /\ Begin(s, swap[s].key)
  /\ swap' = [swap EXCEPT ![s].pc = "composing"]
  /\ UNCHANGED <<env, run, page, get, put, acts, faults, mixed>>

\* faulty: compose is asked for the service without --force-recreate
ComposedKeeps(s) ==
  /\ swap[s].pc = "composing" /\ Over(s)
  /\ swap' = [swap EXCEPT ![s].pc = "done"]
  /\ UNCHANGED <<env, run, page, get, put, acts, faults, mixed>>

Composed(s) ==
  /\ swap[s].pc = "composing" /\ Recreate(s) /\ Over(s)
  /\ swap' = [swap EXCEPT ![s].pc = "done"]
  /\ UNCHANGED <<env, page, get, put, acts, faults, mixed>>

\* .env cannot be written, the compose run fails, or the browser that started
\* the swap has gone, which cancels it, with the container there or not
SwapFails(s) ==
  /\ swap[s].pc \in {"started", "read", "written", "composing"} /\ Fault /\ Over(s)
  /\ swap' = [swap EXCEPT ![s] = FreeSwap]
  /\ UNCHANGED run \/ (swap[s].pc = "composing" /\ Recreate(s))
  /\ UNCHANGED <<env, page, get, put, mixed>>
-----------------------------------------------------------------------------
Answer(g) == Read(g) \/ Load(g)

Next ==
  \/ \E g \in Gets : Answer(g) \/ Reload(g) \/ LoadFails(g) \/ \E z \in Zones : Open(g, z)
  \/ Close
  \/ \E k \in Keys : \E m \in Catalog[k] : Edit(k, m)
  \/ \E b \in Builds : Rebuilt(b) \/ RebuildFails(b) \/ \E k \in Keys : Rebuild(b, k)
  \/ \E p \in Puts : Save(p) \/ Write(p) \/ Saved(p) \/ SaveFails(p)
  \/ \E s \in Swaps :
       \/ ReadEnv(s) \/ WriteEnv(s) \/ Compose(s) \/ Composed(s) \/ SwapFails(s)
       \/ \E k \in Keys : \E m \in Catalog[k] : StartSwap(s, k, m)

Spec == Init /\ [][Next]_vars
-----------------------------------------------------------------------------
ReqType(pcs) == [pc : pcs, zone : Zones \union {None}, text : File]

TypeOK ==
  /\ env \in [Zones -> File] /\ run \in [Keys -> Models]
  /\ build \in [Builds \union Swaps -> [key : Keys, model : Models \union {None}]]
  /\ page \in [zone : Zones \union {None}, text : File, loading : BOOLEAN, dirty : BOOLEAN]
  /\ get \in [Gets -> ReqType({"free", "sent", "read"})]
  /\ put \in [Puts -> ReqType({"free", "sent", "written"})]
  /\ swap \in [Swaps -> [pc : {"free", "started", "read", "written", "composing", "done"},
                         key : Keys, model : Models \union {None}, seen : File,
                         lone : BOOLEAN]]
  /\ acts \in 0..MaxActs /\ faults \in 0..MaxFaults
  /\ mixed \subseteq Zones

\* The .env of a zone is a version of its own file.  The one way another text
\* gets there is an answer for another zone, or an error, that came into the
\* zone's open form and was edited and saved.
FileStaysItsOwn == \A z \in Zones : env[z].home = z \/ z \in mixed

\* A swap that ran alone has done what it reports: .env names the model and the
\* service runs with it, unless .env assigned the key twice.  Rebuilds begun
\* after the swap wrote .env may still be under way, or ended before or after
\* it; one begun earlier puts the old model back (see lone).
SwapHolds ==
  \A s \in Swaps : swap[s].pc = "done" /\ swap[s].lone =>
    LET k == swap[s].key IN
    Len(env[AiZone].lines[k]) = 1 =>
      Value(env[AiZone], k) = swap[s].model /\ run[k] = swap[s].model
=============================================================================
