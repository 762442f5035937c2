----------------------------- MODULE ZoneProofs -----------------------------
(***************************************************************************)
(* What holds of the .env files for every set of zones, services, models,  *)
(* requests, rebuilds and swaps, whatever the bounds on acts and faults:   *)
(* the types, that a zone keeps its own file unless its form was filled    *)
(* with something else, and that a swap that ran alone holds.              *)
(***************************************************************************)
EXTENDS Zone, SequenceTheorems, TLAPS

(* A text and the zone it is about agree, or the zone's form is excused. *)
Own(text, z) == text.home = z \/ z \in mixed

(* The inductive invariant: every text on its way to a file is a version   *)
(* of that file, in the form, in an answer, in a write or in a swap.       *)
FormIsOwn == page.zone # None /\ ~page.loading => Own(page.text, page.zone)
AnswersAreOwn == \A g \in Gets : get[g].pc = "read" => Own(get[g].text, get[g].zone)
WritesAreOwn == \A p \in Puts : put[p].pc = "sent" => Own(put[p].text, put[p].zone)
SwapsAreOwn == \A s \in Swaps : swap[s].pc = "read" => Own(swap[s].seen, AiZone)
OwnInv == FileStaysItsOwn /\ FormIsOwn /\ AnswersAreOwn /\ WritesAreOwn /\ SwapsAreOwn
-----------------------------------------------------------------------------
(* Texts *)

LEMMA AssignedIsSeq ==
  ASSUME NEW ls \in Assigned
  PROVE  ls \in Seq(Models) /\ Len(ls) \in 0..2 /\ ls \in [1..Len(ls) -> Models]
<1>1. PICK n \in 0..2 : ls \in [1..n -> Models]
  BY DEF Assigned
<1> QED BY <1>1

LEMMA BlankIsFile == Blank \in File
<1>1. <<>> \in Assigned
  <2>1. <<>> \in [1..0 -> Models]
    OBVIOUS
  <2> QED BY <2>1 DEF Assigned
<1> QED BY <1>1 DEF Blank, File

LEMMA FirstIsModel == \A k \in Keys : First[k] \in Models
BY ZoneAssumption DEF Models

LEMMA CatalogIsModel == \A k \in Keys : Catalog[k] \subseteq Models
BY DEF Models

LEMMA ValueIsModel ==
  ASSUME NEW file \in File, NEW k \in Keys
  PROVE  Value(file, k) \in Models
<1>1. file.lines[k] \in Assigned
  BY DEF File
<1>2. CASE file.lines[k] = <<>>
  BY <1>2, FirstIsModel DEF Value
<1>3. CASE file.lines[k] # <<>>
  <2>1. file.lines[k] \in Seq(Models) /\ Len(file.lines[k]) \in 1..2
    BY <1>1, <1>3, AssignedIsSeq
  <2> QED BY <2>1, <1>3 DEF Value
<1> QED BY <1>2, <1>3

(* One line is put in, and the text remains that of its zone. *)
LEMMA WithKeyIsFile ==
  ASSUME NEW file \in File, NEW k \in Keys, NEW m \in Models
  PROVE  WithKey(file, k, m) \in File /\ WithKey(file, k, m).home = file.home
<1> DEFINE old == file.lines[k]
           new == IF old = <<>> THEN <<m>> ELSE [old EXCEPT ![1] = m]
<1>1. old \in Assigned
  BY DEF File
<1>2. new \in Assigned
  <2>1. CASE old = <<>>
    <3>1. <<m>> \in [1..1 -> Models]
      OBVIOUS
    <3> QED BY <2>1, <3>1 DEF Assigned
  <2>2. CASE old # <<>>
    <3>1. [old EXCEPT ![1] = m] \in [1..Len(old) -> Models] /\ Len(old) \in 0..2
      BY <1>1, AssignedIsSeq
    <3> QED BY <2>2, <3>1 DEF Assigned
  <2> QED BY <2>1, <2>2
<1>3. WithKey(file, k, m) = [file EXCEPT !.lines = [file.lines EXCEPT ![k] = new]]
  BY DEF WithKey
<1> HIDE DEF new
<1> QED BY <1>2, <1>3 DEF File
-----------------------------------------------------------------------------
(* Types *)

FilesOK == env \in [Zones -> File] /\ run \in [Keys -> Models]
PageOK  == page \in [zone : Zones \union {None}, text : File, loading : BOOLEAN, dirty : BOOLEAN]
ReqsOK  == /\ get \in [Gets -> ReqType({"free", "sent", "read"})]
           /\ put \in [Puts -> ReqType({"free", "sent", "written"})]
RunOK   == build \in [Builds \union Swaps -> [key : Keys, model : Models \union {None}]]
SwapRec == [pc : {"free", "started", "read", "written", "composing", "done"}, key : Keys,
            model : Models \union {None}, seen : File, lone : BOOLEAN]
\* a swap that is composing has its compose run under way
Running(s) == build[s].model # None /\ build[s].key = swap[s].key
ComposeOK == \A s \in Swaps : swap[s].pc = "composing" => Running(s)
\* what a request or a swap under way is about
Chosen  == /\ \A s \in Swaps : swap[s].pc # "free" => swap[s].model \in Models
           /\ \A g \in Gets : get[g].pc # "free" => get[g].zone \in Zones
           /\ \A p \in Puts : put[p].pc # "free" => put[p].zone \in Zones
Bounds  == acts \in 0..MaxActs /\ faults \in 0..MaxFaults /\ mixed \subseteq Zones
Types   == /\ FilesOK /\ PageOK /\ ReqsOK /\ RunOK /\ swap \in [Swaps -> SwapRec]
           /\ Chosen /\ ComposeOK /\ Bounds

LEMMA TypesAreTypeOK == Types => TypeOK
BY DEF Types, FilesOK, PageOK, ReqsOK, RunOK, SwapRec, Bounds, TypeOK

LEMMA FreeReqOK ==
  /\ FreeReq \in ReqType({"free", "sent", "read"})
  /\ FreeReq \in ReqType({"free", "sent", "written"})
  /\ FreeReq.pc = "free"
BY BlankIsFile DEF FreeReq, ReqType

LEMMA FreeSwapOK == FreeSwap \in SwapRec /\ FreeSwap.pc = "free"
BY BlankIsFile, ZoneAssumption DEF FreeSwap, SwapRec

LEMMA NoBuildOK == NoBuild \in [key : Keys, model : Models \union {None}] /\ NoBuild.model = None
BY ZoneAssumption DEF NoBuild

LEMMA BoundsKept == Bounds /\ (Act \/ Fault \/ UNCHANGED <<acts, faults>>) =>
                      acts' \in 0..MaxActs /\ faults' \in 0..MaxFaults
BY ZoneAssumption DEF Bounds, Act, Fault

(* Others may find themselves not alone; nothing else of them changes. *)
LEMMA NotAloneOK ==
  ASSUME Types, NEW s
  PROVE  /\ NotAlone(s) \in [Swaps -> SwapRec]
         /\ \A q \in Swaps : NotAlone(s)[q].pc = swap[q].pc /\ NotAlone(s)[q].key = swap[q].key
                             /\ NotAlone(s)[q].model = swap[q].model
                             /\ NotAlone(s)[q].seen = swap[q].seen
<1>1. \A q \in Swaps : swap[q] \in SwapRec
  BY DEF Types
<1> QED BY <1>1 DEF NotAlone, SwapRec

LEMMA InitTypes == Init => Types
<1> SUFFICES ASSUME Init PROVE Types
  OBVIOUS
<1>1. FilesOK
  <2>1. \A k \in Keys : <<First[k]>> \in Assigned
    <3> SUFFICES ASSUME NEW k \in Keys PROVE <<First[k]>> \in Assigned
      OBVIOUS
    <3>1. <<First[k]>> \in [1..1 -> Models]
      BY FirstIsModel
    <3> QED BY <3>1 DEF Assigned
  <2>2. \A z \in Zones : [home |-> z, lines |-> [k \in Keys |-> <<First[k]>>]] \in File
    BY <2>1 DEF File
  <2>3. run \in [Keys -> Models]
    BY ZoneAssumption DEF Init
  <2> QED BY <2>2, <2>3 DEF Init, FilesOK
<1>2. PageOK
  BY BlankIsFile DEF Init, PageOK, ClosedPage
<1>3. ReqsOK
  BY FreeReqOK DEF Init, ReqsOK
<1>4. swap \in [Swaps -> SwapRec] /\ Chosen /\ ComposeOK
  BY FreeSwapOK DEF Init, Chosen, ComposeOK, FreeReq
<1>5. RunOK
  BY NoBuildOK DEF Init, RunOK
<1> QED BY <1>1, <1>2, <1>3, <1>4, <1>5, ZoneAssumption DEF Init, Types, Bounds
-----------------------------------------------------------------------------
(* One lemma for each process. *)

FormStep(g) == Reload(g) \/ LoadFails(g) \/ Load(g) \/ Read(g) \/ \E z \in Zones : Open(g, z)
SaveStep(p) == Save(p) \/ Write(p) \/ Saved(p) \/ SaveFails(p)
BuildStep(b) == Rebuilt(b) \/ RebuildFails(b) \/ \E k \in Keys : Rebuild(b, k)
SwapStep(s) ==
  \/ ReadEnv(s) \/ WriteEnv(s) \/ Compose(s) \/ Composed(s) \/ SwapFails(s)
  \/ \E k \in Keys : \E m \in Catalog[k] : StartSwap(s, k, m)

LEMMA FormTypes ==
  ASSUME Types, NEW g \in Gets, FormStep(g)
  PROVE  Types'
<1> USE BlankIsFile DEF Types
<1>1. FilesOK' /\ swap' = swap /\ put' = put /\ build' = build
  BY DEF FormStep, Reload, LoadFails, Load, Read, Open, host, FilesOK
<1>2. get[g] \in ReqType({"free", "sent", "read"})
  BY DEF ReqsOK
<1>3. PICK q \in ReqType({"free", "sent", "read"}) :
        get' = [get EXCEPT ![g] = q] /\ (q.pc # "free" => q.zone \in Zones)
  <2>1. CASE Read(g)
    <3>1. get[g].zone \in Zones
      BY <2>1 DEF Read, Chosen
    <3>2. [get[g] EXCEPT !.pc = "read", !.text = env[get[g].zone]] \in ReqType({"free", "sent", "read"})
      BY <1>2, <3>1 DEF ReqType, FilesOK
    <3>3. get' = [get EXCEPT ![g] = [get[g] EXCEPT !.pc = "read", !.text = env[get[g].zone]]]
      BY <2>1 DEF Read
    <3> QED BY <1>2, <3>1, <3>2, <3>3 DEF ReqType
  <2>2. ASSUME NEW z \in Zones, Fetch(g, z)
        PROVE  \E q \in ReqType({"free", "sent", "read"}) :
                 get' = [get EXCEPT ![g] = q] /\ (q.pc # "free" => q.zone \in Zones)
    <3>1. [pc |-> "sent", zone |-> z, text |-> Blank] \in ReqType({"free", "sent", "read"})
      BY DEF ReqType
    <3> QED BY <2>2, <3>1 DEF Fetch
  <2>3. CASE get' = Free(get, g)
    BY <2>3, FreeReqOK DEF Free
  <2>4. Reload(g) => page.zone \in Zones /\ Fetch(g, page.zone)
    BY DEF Reload, PageOK
  <2> QED BY <2>1, <2>2, <2>3, <2>4 DEF FormStep, LoadFails, Load, Open
<1>4. ReqsOK' /\ Chosen' /\ RunOK' /\ ComposeOK'
  BY <1>1, <1>3 DEF ReqsOK, Chosen, RunOK, ComposeOK, Running
<1>5. PageOK'
  BY <1>2 DEF PageOK, ReqType, FormStep, Reload, LoadFails, Load, Read, Open
<1>6. Bounds'
  BY BoundsKept DEF Bounds, PageOK, FormStep, Reload, LoadFails, Load, Read, Open
<1> QED BY <1>1, <1>4, <1>5, <1>6

LEMMA SaveTypes ==
  ASSUME Types, NEW p \in Puts, SaveStep(p)
  PROVE  Types'
<1> USE BlankIsFile DEF Types
<1>1. get' = get /\ run' = run /\ build' = build
  BY DEF SaveStep, Save, Write, Saved, SaveFails, host
<1>2. put[p] \in ReqType({"free", "sent", "written"})
  BY DEF ReqsOK
<1>3. FilesOK'
  BY <1>2 DEF FilesOK, ReqType, SaveStep, Save, Write, Saved, SaveFails, host
<1>4. PICK q \in ReqType({"free", "sent", "written"}) :
        put' = [put EXCEPT ![p] = q] /\ (q.pc # "free" => q.zone \in Zones)
  <2>1. CASE Write(p)
    <3>1. [put[p] EXCEPT !.pc = "written", !.text = Blank] \in ReqType({"free", "sent", "written"})
      BY <1>2 DEF ReqType
    <3>2. put' = [put EXCEPT ![p] = [put[p] EXCEPT !.pc = "written", !.text = Blank]]
      BY <2>1 DEF Write
    <3> QED BY <1>2, <2>1, <3>1, <3>2 DEF Write, Chosen, ReqType
  <2>2. CASE Save(p)
    <3>1. page.zone \in Zones /\ page.text \in File
      BY <2>2 DEF Save, PageOK
    <3>2. [pc |-> "sent", zone |-> page.zone, text |-> page.text] \in ReqType({"free", "sent", "written"})
      BY <3>1 DEF ReqType
    <3> QED BY <2>2, <3>1, <3>2 DEF Save
  <2>3. CASE put' = Free(put, p)
    BY <2>3, FreeReqOK DEF Free
  <2> QED BY <2>1, <2>2, <2>3 DEF SaveStep, Saved, SaveFails
<1>5. /\ swap' \in [Swaps -> SwapRec]
      /\ \A s \in Swaps : /\ swap'[s].pc = swap[s].pc /\ swap'[s].key = swap[s].key
                         /\ swap'[s].model = swap[s].model
  <2>1. swap' = NotAlone(None) \/ swap' = swap
    BY DEF SaveStep, Save, Write, Saved, SaveFails
  <2>2. NotAlone(None) \in [Swaps -> SwapRec]
    BY NotAloneOK
  <2>3. \A s \in Swaps : /\ NotAlone(None)[s].pc = swap[s].pc
                         /\ NotAlone(None)[s].key = swap[s].key
                         /\ NotAlone(None)[s].model = swap[s].model
    BY NotAloneOK
  <2> QED BY <2>1, <2>2, <2>3
<1>6. ReqsOK' /\ Chosen' /\ RunOK' /\ ComposeOK'
  BY <1>1, <1>4, <1>5 DEF ReqsOK, Chosen, RunOK, ComposeOK, Running
<1>7. PageOK'
  BY DEF PageOK, SaveStep, Save, Write, Saved, SaveFails
<1>8. Bounds'
  BY BoundsKept DEF Bounds, SaveStep, Save, Write, Saved, SaveFails
<1> QED BY <1>3, <1>5, <1>6, <1>7, <1>8

(* A compose run comes up with a model, and the runs of others stay. *)
LEMMA BeginOK ==
  ASSUME Types, NEW b \in Builds \union Swaps, NEW k \in Keys, Begin(b, k)
  PROVE  /\ RunOK' /\ build'[b].key = k /\ build'[b].model = Value(env[AiZone], k)
         /\ build'[b].model # None
         /\ \A o \in Builds \union Swaps : o # b => build'[o] = build[o]
<1>1. Value(env[AiZone], k) \in Models
  BY ValueIsModel, ZoneAssumption DEF Types, FilesOK
<1>2. PICK v \in Models : v = Value(env[AiZone], k)
  BY <1>1
<1>3. build' = [build EXCEPT ![b] = [key |-> k, model |-> v]] /\ v # None
  BY <1>2, ZoneAssumption DEF Begin
<1> QED BY <1>2, <1>3 DEF Types, RunOK

LEMMA OverOK ==
  ASSUME Types, NEW b \in Builds \union Swaps, Over(b)
  PROVE  /\ RunOK' /\ build'[b] = NoBuild
         /\ \A o \in Builds \union Swaps : o # b => build'[o] = build[o]
BY NoBuildOK DEF Over, Types, RunOK

LEMMA RecreateOK ==
  ASSUME Types, NEW b \in Builds \union Swaps, build[b].model # None, Recreate(b)
  PROVE  run' \in [Keys -> Models]
<1>1. build[b].model \in Models
  BY DEF Types, RunOK
<1> QED BY <1>1 DEF Recreate, Types, FilesOK

(* What a rebuild does to the agent's files and containers. *)
LEMMA BuildKinds ==
  ASSUME NEW b \in Builds, BuildStep(b)
  PROVE  /\ UNCHANGED <<env, page, get, put, mixed>>
         /\ Act \/ Fault \/ UNCHANGED <<acts, faults>>
         /\ \/ Over(b) /\ (run' = run \/ (build[b].model # None /\ Recreate(b))) /\ swap' = swap
            \/ \E k \in Keys : Rebuild(b, k) /\ Begin(b, k) /\ run' = run
<1>1. ASSUME NEW k \in Keys, Rebuild(b, k)
      PROVE  Begin(b, k) /\ Act /\ UNCHANGED <<env, run, page, get, put, mixed>>
  BY <1>1 DEF Rebuild
<1>2. CASE Rebuilt(b)
  BY <1>2 DEF Rebuilt
<1>3. CASE RebuildFails(b)
  BY <1>3 DEF RebuildFails
<1> QED BY <1>1, <1>2, <1>3 DEF BuildStep

LEMMA BuildTypes ==
  ASSUME Types, NEW b \in Builds, BuildStep(b)
  PROVE  Types'
<1>1. UNCHANGED <<env, page, get, put, mixed>>
  BY BuildKinds
<1>2. b \notin Swaps
  BY ZoneAssumption
<1>3. RunOK' /\ \A s \in Swaps : build'[s] = build[s]
  <2>1. CASE Over(b)
    BY <1>2, <2>1, OverOK
  <2>2. CASE \E k \in Keys : Begin(b, k)
    BY <1>2, <2>2, BeginOK
  <2> QED BY <2>1, <2>2, BuildKinds
<1>4. FilesOK'
  <2>1. run' = run \/ (build[b].model # None /\ Recreate(b))
    BY BuildKinds
  <2>2. run' \in [Keys -> Models]
    BY <2>1, RecreateOK DEF Types, FilesOK
  <2> QED BY <1>1, <2>2 DEF Types, FilesOK
<1>5. /\ swap' \in [Swaps -> SwapRec]
      /\ \A s \in Swaps : /\ swap'[s].pc = swap[s].pc /\ swap'[s].key = swap[s].key
                         /\ swap'[s].model = swap[s].model
  <2>1. \A s \in Swaps : swap[s] \in SwapRec
    BY DEF Types
  <2>2. swap' = swap \/ \E k \in Keys : Rebuild(b, k)
    BY BuildKinds
  <2>3. ASSUME NEW k \in Keys, Rebuild(b, k)
        PROVE  swap' \in [Swaps -> SwapRec]
    <3>1. \A s \in Swaps : [swap[s] EXCEPT !.lone = FALSE] \in SwapRec
      BY <2>1 DEF SwapRec
    <3> QED BY <2>1, <2>3, <3>1 DEF Rebuild
  <2>4. ASSUME NEW k \in Keys, Rebuild(b, k), NEW s \in Swaps
        PROVE  swap'[s] = swap[s] \/ swap'[s] = [swap[s] EXCEPT !.lone = FALSE]
    BY <2>4 DEF Rebuild
  <2>5. \A s \in Swaps : swap'[s] = swap[s] \/ swap'[s] = [swap[s] EXCEPT !.lone = FALSE]
    BY <2>2, <2>4
  <2>6. swap' \in [Swaps -> SwapRec]
    BY <2>2, <2>3 DEF Types
  <2> QED BY <2>1, <2>5, <2>6 DEF SwapRec
<1>6. Chosen' /\ ComposeOK' /\ PageOK' /\ ReqsOK'
  BY <1>1, <1>3, <1>5 DEF Types, Chosen, ComposeOK, Running, PageOK, ReqsOK
<1>7. Bounds'
  <2>1. Act \/ Fault \/ UNCHANGED <<acts, faults>>
    BY BuildKinds
  <2> QED BY <1>1, <2>1, BoundsKept DEF Types, Bounds
<1> QED BY <1>3, <1>4, <1>5, <1>6, <1>7 DEF Types

LEMMA SwapTypes ==
  ASSUME Types, NEW s \in Swaps, SwapStep(s)
  PROVE  Types'
<1> USE DEF Types
<1>1. get' = get /\ put' = put /\ page' = page
  BY DEF SwapStep, ReadEnv, WriteEnv, Compose, Composed, SwapFails, StartSwap
<1>2. swap[s] \in SwapRec /\ env[AiZone] \in File
  BY ZoneAssumption DEF FilesOK
<1>3. FilesOK'
  <2>1. CASE WriteEnv(s)
    <3>1. swap[s].model \in Models
      BY <2>1 DEF WriteEnv, Chosen
    <3>2. WithKey(swap[s].seen, swap[s].key, swap[s].model) \in File
      BY <1>2, <3>1, WithKeyIsFile DEF SwapRec
    <3> QED BY <2>1, <3>2 DEF WriteEnv, FilesOK
  <2>2. CASE UNCHANGED <<env, run>>
    BY <2>2 DEF FilesOK
  <2>3. CASE Recreate(s) /\ env' = env /\ swap[s].pc = "composing"
    BY <2>3, RecreateOK DEF FilesOK, ComposeOK, Running
  <2> QED BY <2>1, <2>2, <2>3 DEF SwapStep, ReadEnv, Compose, Composed, SwapFails, StartSwap, host
<1>4. PICK q \in SwapRec, f \in {swap, NotAlone(s)} :
        swap' = [f EXCEPT ![s] = q] /\ (q.pc # "free" => q.model \in Models)
  <2>1. CASE ReadEnv(s)
    <3>1. [swap[s] EXCEPT !.pc = "read", !.seen = env[AiZone]] \in SwapRec
      BY <1>2 DEF SwapRec
    <3>2. swap' = [swap EXCEPT ![s] = [swap[s] EXCEPT !.pc = "read", !.seen = env[AiZone]]]
      BY <2>1 DEF ReadEnv
    <3> QED BY <1>2, <2>1, <3>1, <3>2 DEF ReadEnv, Chosen, SwapRec
  <2>2. CASE WriteEnv(s)
    <3> DEFINE r == NotAlone(s)[s]
               q == [r EXCEPT !.pc = "written", !.seen = Blank]
    <3>1. r \in SwapRec /\ r.model = swap[s].model
      BY NotAloneOK
    <3>2. q \in SwapRec /\ q.model = r.model
      BY <3>1, BlankIsFile DEF SwapRec
    <3>3. swap' = [NotAlone(s) EXCEPT ![s] = q]
      BY <2>2 DEF WriteEnv
    <3>4. swap[s].model \in Models
      BY <2>2 DEF WriteEnv, Chosen
    <3> HIDE DEF q, r
    <3> QED BY <3>1, <3>2, <3>3, <3>4
  <2>3. CASE Compose(s)
    <3>1. [swap[s] EXCEPT !.pc = "composing"] \in SwapRec
      BY <1>2 DEF SwapRec
    <3>2. swap' = [swap EXCEPT ![s] = [swap[s] EXCEPT !.pc = "composing"]]
      BY <2>3 DEF Compose
    <3> QED BY <1>2, <2>3, <3>1, <3>2 DEF Compose, Chosen, SwapRec
  <2>6. CASE Composed(s)
    <3>1. [swap[s] EXCEPT !.pc = "done"] \in SwapRec
      BY <1>2 DEF SwapRec
    <3>2. swap' = [swap EXCEPT ![s] = [swap[s] EXCEPT !.pc = "done"]]
      BY <2>6 DEF Composed
    <3> QED BY <1>2, <2>6, <3>1, <3>2 DEF Composed, Chosen, SwapRec
  <2>4. CASE SwapFails(s)
    BY <2>4, FreeSwapOK DEF SwapFails
  <2>5. ASSUME NEW k \in Keys, NEW m \in Catalog[k], StartSwap(s, k, m)
        PROVE  \E q \in SwapRec, f \in {swap, NotAlone(s)} :
                 swap' = [f EXCEPT ![s] = q] /\ (q.pc # "free" => q.model \in Models)
    <3> DEFINE q == [pc |-> "started", key |-> k, model |-> m, seen |-> Blank,
                     lone |-> Building(k) = {}
                             /\ \A o \in Swaps \ {s} : swap[o].pc \in {"free", "done"}]
    <3>1. q \in SwapRec /\ q.model \in Models
      BY BlankIsFile, CatalogIsModel DEF SwapRec
    <3>2. swap' = [NotAlone(s) EXCEPT ![s] = q]
      BY <2>5 DEF StartSwap
    <3> HIDE DEF q
    <3> QED BY <3>1, <3>2
  <2> QED BY <2>1, <2>2, <2>3, <2>4, <2>5, <2>6 DEF SwapStep
<1>5. /\ f \in [Swaps -> SwapRec]
      /\ \A o \in Swaps : /\ f[o].pc = swap[o].pc /\ f[o].key = swap[o].key
                         /\ f[o].model = swap[o].model
  BY <1>4, NotAloneOK
<1>6. swap' \in [Swaps -> SwapRec] /\ Chosen'
  BY <1>1, <1>4, <1>5 DEF Chosen
<1>9. RunOK' /\ ComposeOK'
  <2>1. CASE build' = build /\ ~Compose(s)
    <3>1. swap'[s].pc # "composing"
      BY <1>2, <2>1, <1>6 DEF SwapStep, ReadEnv, WriteEnv, Composed, SwapFails, StartSwap, FreeSwap, SwapRec
    <3> QED BY <1>4, <1>5, <2>1, <3>1 DEF RunOK, ComposeOK, Running
  <2>2. CASE Over(s) /\ ~Compose(s)
    <3>1. RunOK' /\ \A o \in Swaps : o # s => build'[o] = build[o]
      BY <2>2, OverOK
    <3>2. swap'[s].pc # "composing"
      BY <1>2, <2>2, <1>6 DEF SwapStep, ReadEnv, WriteEnv, Composed, SwapFails, StartSwap, FreeSwap, SwapRec
    <3> QED BY <1>4, <1>5, <3>1, <3>2 DEF ComposeOK, Running
  <2>3. CASE Compose(s)
    <3>1. swap[s].key \in Keys /\ Begin(s, swap[s].key)
      BY <1>2, <2>3 DEF Compose, SwapRec
    <3>2. /\ RunOK' /\ build'[s].key = swap[s].key /\ build'[s].model # None
          /\ \A o \in Swaps : o # s => build'[o] = build[o]
      BY <3>1, BeginOK
    <3>3. swap'[s].key = swap[s].key /\ \A o \in Swaps : o # s => swap'[o] = swap[o]
      BY <1>2, <2>3 DEF Compose, SwapRec
    <3> QED BY <3>2, <3>3 DEF ComposeOK, Running
  <2>4. build' = build \/ Over(s) \/ Compose(s)
    BY DEF SwapStep, ReadEnv, WriteEnv, Composed, SwapFails, StartSwap, host
  <2> QED BY <2>1, <2>2, <2>3, <2>4
<1>7. PageOK' /\ ReqsOK'
  BY <1>1 DEF PageOK, ReqsOK
<1>8. Bounds'
  BY BoundsKept DEF Bounds, SwapStep, ReadEnv, WriteEnv, Compose, Composed, SwapFails, StartSwap
<1> QED BY <1>3, <1>6, <1>7, <1>8, <1>9

(* The user's edit keeps the text a version of the file it was. *)
LEMMA EditTypes ==
  ASSUME Types, NEW k \in Keys, NEW m \in Catalog[k], Edit(k, m)
  PROVE  Types' /\ page'.zone = page.zone /\ page'.loading = page.loading
                /\ page'.text.home = page.text.home
<1> USE DEF Types
<1>1. UNCHANGED <<host, get, put, swap, mixed>> /\ Act
  BY DEF Edit
<1>2. page.text \in File /\ page.text.lines[k] \in Assigned /\ m \in Models
  BY CatalogIsModel DEF PageOK, File
<1>3. PICK line \in {Len(page.text.lines[k]), Len(page.text.lines[k]) + 1} \cap (1..2) :
        page' = [page EXCEPT !.dirty = TRUE,
                   !.text.lines[k] = [i \in 1..line |-> IF i = line THEN m ELSE page.text.lines[k][i]]]
  BY DEF Edit
<1> DEFINE new == [i \in 1..line |-> IF i = line THEN m ELSE page.text.lines[k][i]]
           text == [page.text EXCEPT !.lines = [page.text.lines EXCEPT ![k] = new]]
<1>4. new \in Assigned
  <2>1. Len(page.text.lines[k]) \in 0..2 /\ page.text.lines[k] \in [1..Len(page.text.lines[k]) -> Models]
    BY <1>2, AssignedIsSeq
  <2>2. \A i \in 1..line : i # line => page.text.lines[k][i] \in Models
    BY <2>1, <1>3
  <2>3. new \in [1..line -> Models] /\ line \in 0..2
    BY <2>1, <2>2, <1>2, <1>3
  <2> QED BY <2>3 DEF Assigned
<1>5. text \in File /\ text.home = page.text.home
  <2> HIDE DEF new
  <2> QED BY <1>2, <1>4 DEF File
<1>6. page' = [page EXCEPT !.dirty = TRUE, !.text = text]
  BY <1>2, <1>3 DEF PageOK, File
<1> HIDE DEF text
<1>7. PageOK' /\ page'.zone = page.zone /\ page'.loading = page.loading /\ page'.text = text
  BY <1>5, <1>6 DEF PageOK
<1>8. FilesOK' /\ ReqsOK' /\ RunOK' /\ swap' = swap /\ Chosen' /\ ComposeOK'
  BY <1>1 DEF host, FilesOK, ReqsOK, RunOK, Chosen, ComposeOK, Running
<1>9. Bounds'
  BY <1>1, BoundsKept DEF Bounds
<1> QED BY <1>5, <1>7, <1>8, <1>9

LEMMA CloseTypes == Types /\ Close => Types'
BY BlankIsFile DEF Close, Types, FilesOK, host, PageOK, ReqsOK, RunOK, Chosen, ComposeOK, Running, Bounds

LEMMA SameTypes == Types /\ UNCHANGED vars => Types'
BY DEF vars, Types, FilesOK, host, PageOK, ReqsOK, RunOK, Chosen, ComposeOK, Running, Bounds

(* Next, process by process. *)
LEMMA NextSteps ==
  Next <=> \/ \E g \in Gets : FormStep(g)
           \/ \E p \in Puts : SaveStep(p)
           \/ \E s \in Swaps : SwapStep(s)
           \/ \E b \in Builds : BuildStep(b)
           \/ \E k \in Keys : \E m \in Catalog[k] : Edit(k, m)
           \/ Close
BY DEF Next, Answer, FormStep, SaveStep, SwapStep, BuildStep

LEMMA NextTypes == Types /\ [Next]_vars => Types'
BY FormTypes, SaveTypes, SwapTypes, EditTypes, CloseTypes, BuildTypes, SameTypes, NextSteps

(* Every file is a list of assignments, at most two for a service, and each *)
(* service runs with a model, whatever was edited, saved and swapped at the *)
(* same time.                                                               *)
THEOREM TypeCorrect == Spec => []TypeOK
<1>1. Spec => []Types
  BY InitTypes, NextTypes, PTL DEF Spec
<1> QED BY <1>1, TypesAreTypeOK, PTL
-----------------------------------------------------------------------------
(* Whose text it is *)

LEMMA InitOwn == Init => OwnInv
BY SMTT(30) DEF Init, OwnInv, FormIsOwn, AnswersAreOwn, WritesAreOwn, SwapsAreOwn, FileStaysItsOwn, ClosedPage, FreeReq, FreeSwap

(* An excuse remains. *)
LEMMA MixedGrows == Next => mixed \subseteq mixed'
BY DEF Next, Answer, Read, Load, Reload, LoadFails, Open, Close, Rebuild, Rebuilt, RebuildFails, Edit, Save, Write,
       Saved, SaveFails, ReadEnv, WriteEnv, Compose, Composed, SwapFails, StartSwap

(* The answer is put into the open form: it is the form's own file, or the *)
(* form's zone is excused from now on.                                     *)
LEMMA FormOwn ==
  ASSUME Types, OwnInv, NEW g \in Gets, FormStep(g)
  PROVE  OwnInv'
<1> USE DEF OwnInv, FormIsOwn, AnswersAreOwn, WritesAreOwn, SwapsAreOwn
<1>1. env' = env /\ put' = put /\ swap' = swap /\ mixed \subseteq mixed'
  BY DEF FormStep, Reload, LoadFails, Load, Read, Open, host
<1>2. FileStaysItsOwn'
  BY <1>1 DEF FileStaysItsOwn
<1>3. FormIsOwn'
  <2>1. PageOK /\ page.zone \in Zones \union {None}
    BY DEF Types, PageOK
  <2>2. CASE Load(g)
    <3>1. page'.text = get[g].text /\ page'.zone = page.zone
      BY <2>1, <2>2 DEF Load, PageOK
    <3>2. CASE page.zone = get[g].zone
      BY <2>2, <3>1, <3>2, <1>1 DEF Load, Own
    <3>3. CASE page.zone # get[g].zone
      BY <2>1, <2>2, <3>1, <3>3 DEF Load, Own
    <3> QED BY <3>2, <3>3
  <2>3. CASE LoadFails(g)
    BY <2>1, <2>3 DEF LoadFails, Own, PageOK
  <2>4. CASE Read(g)
    BY <2>4, <1>1 DEF Read, Own
  <2>5. CASE Reload(g) \/ \E z \in Zones : Open(g, z)
    BY <2>1, <2>5 DEF Reload, Open, PageOK
  <2> QED BY <2>2, <2>3, <2>4, <2>5 DEF FormStep
<1>4. AnswersAreOwn'
  <2> SUFFICES ASSUME NEW h \in Gets, (get[h].pc = "read")'
               PROVE  Own(get[h].text, get[h].zone)'
    BY DEF AnswersAreOwn
  <2>1. get \in [Gets -> ReqType({"free", "sent", "read"})]
    BY DEF Types, ReqsOK
  <2>2. CASE Read(g) /\ h = g
    <3>1. get[g] \in ReqType({"free", "sent", "read"}) /\ get[g].zone \in Zones
      BY <2>1, <2>2 DEF Read, Types, Chosen
    <3>2. get'[g].text = env[get[g].zone] /\ get'[g].zone = get[g].zone
      BY <2>1, <2>2, <3>1 DEF Read, ReqType
    <3> QED BY <2>2, <3>1, <3>2, <1>1 DEF FileStaysItsOwn, Own
  <2>3. CASE h # g
    <3>1. get'[h] = get[h]
      BY <2>1, <2>3 DEF FormStep, Reload, LoadFails, Load, Read, Open, Fetch, Free
    <3> QED BY <3>1, <1>1 DEF Own
  <2>4. CASE ~Read(g) /\ h = g
    <3>1. CASE get' = Free(get, g)
      <4>1. get'[g] = FreeReq
        BY <2>1, <3>1 DEF Free
      <4> QED BY <2>4, <4>1 DEF FreeReq
    <3>2. CASE \E z : Fetch(g, z)
      <4>1. get'[g].pc = "sent"
        BY <2>1, <3>2 DEF Fetch
      <4> QED BY <2>4, <4>1
    <3> QED BY <2>4, <3>1, <3>2 DEF FormStep, Reload, LoadFails, Load, Open
  <2> QED BY <2>2, <2>3, <2>4
<1>5. WritesAreOwn'
  BY <1>1 DEF Own
<1>6. SwapsAreOwn'
  BY <1>1 DEF Own
<1> QED BY <1>2, <1>3, <1>4, <1>5, <1>6

(* The text is sent to the zone the form is open for. *)
LEMMA SaveOwn ==
  ASSUME Types, OwnInv, NEW p \in Puts, SaveStep(p)
  PROVE  OwnInv'
<1> USE DEF OwnInv, FormIsOwn, AnswersAreOwn, WritesAreOwn, SwapsAreOwn
<1>1. get' = get /\ mixed' = mixed
  BY DEF SaveStep, Save, Write, Saved, SaveFails
<1>2. put[p] \in ReqType({"free", "sent", "written"})
  BY DEF Types, ReqsOK
<1>3. FileStaysItsOwn'
  BY <1>1 DEF FileStaysItsOwn, Own, Types, FilesOK, SaveStep, Save, Write, Saved, SaveFails, host
<1>4. FormIsOwn'
  BY <1>1 DEF Own, Types, PageOK, SaveStep, Save, Write, Saved, SaveFails
<1>5. WritesAreOwn'
  <2>1. put \in [Puts -> ReqType({"free", "sent", "written"})]
    BY DEF Types, ReqsOK
  <2>2. \A q \in Puts : q # p => put'[q] = put[q]
    BY <2>1 DEF SaveStep, Save, Write, Saved, SaveFails, Free
  <2>3. CASE Save(p)
    <3>1. put'[p].zone = page.zone /\ put'[p].text = page.text
      BY <2>1, <2>3 DEF Save
    <3> QED BY <1>1, <2>2, <2>3, <3>1 DEF Save, Own
  <2>4. CASE Write(p)
    <3>1. put'[p].pc = "written"
      BY <1>2, <2>1, <2>4 DEF Write, ReqType
    <3> QED BY <1>1, <2>2, <3>1 DEF Own
  <2>5. CASE Saved(p) \/ SaveFails(p)
    <3>1. put'[p].pc = "free"
      BY <2>1, <2>5 DEF Saved, SaveFails, Free, FreeReq
    <3> QED BY <1>1, <2>2, <3>1 DEF Own
  <2> QED BY <2>3, <2>4, <2>5 DEF SaveStep
<1>6. SwapsAreOwn'
  <2>1. swap' = NotAlone(None) \/ swap' = swap
    BY DEF SaveStep, Save, Write, Saved, SaveFails
  <2>2. \A s \in Swaps : swap'[s].pc = swap[s].pc /\ swap'[s].seen = swap[s].seen
    BY <2>1, NotAloneOK
  <2> QED BY <1>1, <2>2 DEF Own
<1>7. AnswersAreOwn'
  BY <1>1 DEF Own
<1> QED BY <1>3, <1>4, <1>5, <1>6, <1>7

(* A swap writes back, with one line changed, the file that it read. *)
LEMMA SwapOwn ==
  ASSUME Types, OwnInv, NEW s \in Swaps, SwapStep(s)
  PROVE  OwnInv'
<1> USE DEF OwnInv, FormIsOwn, AnswersAreOwn, WritesAreOwn, SwapsAreOwn
<1>1. get' = get /\ put' = put /\ page' = page /\ mixed' = mixed
  BY DEF SwapStep, ReadEnv, WriteEnv, Compose, Composed, SwapFails, StartSwap
<1>2. swap[s] \in SwapRec /\ env \in [Zones -> File]
  BY DEF Types, FilesOK
<1>3. FileStaysItsOwn'
  <2>1. CASE WriteEnv(s)
    <3>1. swap[s].model \in Models
      BY <2>1 DEF WriteEnv, Chosen, Types
    <3>2. WithKey(swap[s].seen, swap[s].key, swap[s].model).home = swap[s].seen.home
      BY <1>2, <3>1, WithKeyIsFile DEF SwapRec
    <3>3. env'[AiZone].home = swap[s].seen.home /\ \A z \in Zones : z # AiZone => env'[z] = env[z]
      BY <1>2, <2>1, <3>2, ZoneAssumption DEF WriteEnv
    <3>4. Own(swap[s].seen, AiZone)
      BY <2>1 DEF WriteEnv
    <3> QED BY <1>1, <3>3, <3>4 DEF FileStaysItsOwn, Own
  <2>2. CASE env' = env
    BY <1>1, <2>2 DEF FileStaysItsOwn
  <2> QED BY <2>1, <2>2 DEF SwapStep, ReadEnv, Compose, Composed, SwapFails, StartSwap, host
<1>4. SwapsAreOwn'
  <2> SUFFICES ASSUME NEW q \in Swaps, (swap[q].pc = "read")' PROVE Own(swap[q].seen, AiZone)'
    BY DEF SwapsAreOwn
  <2>1. swap \in [Swaps -> SwapRec] /\ NotAlone(s) \in [Swaps -> SwapRec]
    BY NotAloneOK DEF Types
  <2>2. CASE ReadEnv(s) /\ q = s
    <3>1. swap'[s].seen = env[AiZone]
      BY <2>1, <2>2 DEF ReadEnv, SwapRec
    <3> QED BY <2>2, <3>1, <1>1, ZoneAssumption DEF Own, FileStaysItsOwn
  <2>3. CASE q # s
    <3>1. swap'[q].pc = swap[q].pc /\ swap'[q].seen = swap[q].seen
      BY <2>1, <2>3, NotAloneOK DEF SwapStep, ReadEnv, WriteEnv, Compose, Composed, SwapFails, StartSwap
    <3> QED BY <1>1, <3>1 DEF Own
  <2>4. CASE ~ReadEnv(s) /\ q = s
    <3>1. swap'[s].pc # "read"
      BY <2>1, <2>4 DEF SwapStep, WriteEnv, Compose, Composed, SwapFails, StartSwap, FreeSwap, SwapRec
    <3> QED BY <2>4, <3>1
  <2> QED BY <2>2, <2>3, <2>4
<1>5. FormIsOwn' /\ AnswersAreOwn' /\ WritesAreOwn'
  BY <1>1 DEF Own
<1> QED BY <1>3, <1>4, <1>5

LEMMA CloseOwn == Types /\ OwnInv /\ Close => OwnInv'
BY DEF Close, host, Types, PageOK, OwnInv, FileStaysItsOwn, FormIsOwn,
       AnswersAreOwn, WritesAreOwn, SwapsAreOwn, Own

(* A rebuild changes no text. *)
LEMMA BuildOwn ==
  ASSUME Types, OwnInv, NEW b \in Builds, BuildStep(b)
  PROVE  OwnInv'
<1>1. UNCHANGED <<env, page, get, put, mixed>>
  BY BuildKinds
<1>2. \A s \in Swaps : swap'[s].pc = swap[s].pc /\ swap'[s].seen = swap[s].seen
  <2>1. \A s \in Swaps : swap[s] \in SwapRec
    BY DEF Types
  <2>2. swap' = swap \/ \E k \in Keys : Rebuild(b, k)
    BY BuildKinds
  <2> QED BY <2>1, <2>2 DEF Rebuild, SwapRec
<1> QED BY <1>1, <1>2 DEF OwnInv, FileStaysItsOwn, FormIsOwn, AnswersAreOwn, WritesAreOwn,
                          SwapsAreOwn, Own

LEMMA EditOwn ==
  ASSUME Types, OwnInv, NEW k \in Keys, NEW m \in Catalog[k], Edit(k, m)
  PROVE  OwnInv'
<1>1. page'.zone = page.zone /\ page'.loading = page.loading /\ page'.text.home = page.text.home
  BY EditTypes
<1>2. UNCHANGED <<env, get, put, swap, mixed>>
  BY DEF Edit, host
<1> QED BY <1>1, <1>2 DEF OwnInv, FileStaysItsOwn, FormIsOwn,
       AnswersAreOwn, WritesAreOwn, SwapsAreOwn, Own

LEMMA SameOwn == OwnInv /\ UNCHANGED vars => OwnInv'
BY DEF vars, host, OwnInv, FileStaysItsOwn, FormIsOwn,
       AnswersAreOwn, WritesAreOwn, SwapsAreOwn, Own

LEMMA NextOwn == Types /\ OwnInv /\ [Next]_vars => OwnInv'
BY FormOwn, SaveOwn, SwapOwn, CloseOwn, BuildOwn, EditOwn, SameOwn, NextSteps

(* Whatever answers, edits, saves and swaps interleave, a zone's .env is    *)
(* replaced by another text only through an answer for another zone, or an  *)
(* error, that came into its open form (loadModalData puts the answer into  *)
(* the form that is open when it comes).                                    *)
THEOREM FileIsOwn == Spec => []FileStaysItsOwn
<1>1. Types /\ OwnInv /\ [Next]_vars => (Types /\ OwnInv)'
  BY NextTypes, NextOwn
<1>2. OwnInv => FileStaysItsOwn
  BY DEF OwnInv
<1> QED BY InitTypes, InitOwn, <1>1, <1>2, PTL DEF Spec
-----------------------------------------------------------------------------
(* Swaps that run alone *)

\* .env says of a service what the swap wanted, if it says it once
Says(k, m) == Len(env[AiZone].lines[k]) = 1 => Value(env[AiZone], k) = m
\* the container runs with what .env says, likewise
Runs(k) == Len(env[AiZone].lines[k]) = 1 => run[k] = Value(env[AiZone], k)

\* the compose runs of the service that are under way will come up with it too
Fresh(k) == Len(env[AiZone].lines[k]) = 1 =>
              \A b \in Building(k) : build[b].model = Value(env[AiZone], k)

Held(s) ==
  swap[s].lone =>
    /\ \A o \in Swaps \ {s} : swap[o].pc \in {"free", "done"}
    /\ swap[s].pc \in {"started", "read"} => Building(swap[s].key) = {}
    /\ swap[s].pc = "read" => swap[s].seen = env[AiZone]
    /\ swap[s].pc \in {"written", "composing", "done"} =>
         Says(swap[s].key, swap[s].model) /\ Fresh(swap[s].key)
    /\ swap[s].pc = "done" => Runs(swap[s].key)

(* The inductive invariant: while a swap is alone, what it read is what is *)
(* there, and once it has written, no compose run knows an older model.    *)
HeldInv == \A s \in Swaps : Held(s)

(* A line that was alone or missing is alone afterwards, with the model.   *)
LEMMA WithKeySays ==
  ASSUME NEW file \in File, NEW k \in Keys, NEW m \in Models,
         Len(WithKey(file, k, m).lines[k]) = 1
  PROVE  Value(WithKey(file, k, m), k) = m
<1> DEFINE old == file.lines[k]
           new == WithKey(file, k, m).lines[k]
<1>1. old \in Assigned /\ new = IF old = <<>> THEN <<m>> ELSE [old EXCEPT ![1] = m]
  BY DEF File, WithKey
<1>2. old \in Seq(Models) /\ Len(old) \in 0..2
  BY <1>1, AssignedIsSeq
<1>3. CASE old = <<>>
  <2>1. new = <<m>>
    BY <1>1, <1>3
  <2> QED BY <2>1 DEF Value
<1>4. CASE old # <<>>
  <2>1. new = [old EXCEPT ![1] = m] /\ Len(old) \in 1..2
    BY <1>1, <1>2, <1>4
  <2>2. new # <<>> /\ new[1] = m
    BY <2>1, <1>2
  <2>3. Value(WithKey(file, k, m), k) = new[1]
    BY <2>2 DEF Value
  <2> QED BY <2>2, <2>3
<1> QED BY <1>3, <1>4

LEMMA InitHeld == Init => HeldInv
BY DEF Init, HeldInv, Held, FreeSwap

(* A step that leaves the files and what the swaps know, but for those     *)
(* that are not alone any more.                                            *)
LEMMA SameHeld ==
  ASSUME HeldInv, env' = env, run' = run, build' = build,
         \A s \in Swaps : swap'[s] = swap[s] \/ (~swap'[s].lone /\ swap'[s].pc = swap[s].pc)
  PROVE  HeldInv'
<1>1. \A k : /\ Runs(k) => Runs(k)'
             /\ Fresh(k) => Fresh(k)'
             /\ Building(k)' = Building(k)
             /\ \A m : Says(k, m) => Says(k, m)'
  BY DEF Runs, Fresh, Building, Says, Value
<1> SUFFICES ASSUME NEW s \in Swaps, swap'[s].lone PROVE Held(s)'
  BY DEF HeldInv, Held
<1>2. swap'[s] = swap[s] /\ Held(s) /\ \A o \in Swaps : swap'[o].pc = swap[o].pc
  BY DEF HeldInv
<1> QED BY <1>1, <1>2 DEF Held

(* A compose run begins: it has read the file that is there.               *)
LEMMA BeginHeld ==
  ASSUME Types, NEW b \in Builds \union Swaps, NEW k \in Keys, Begin(b, k), env' = env
  PROVE  /\ \A j \in Keys : Fresh(j) => Fresh(j)'
         /\ \A j \in Keys : j # k /\ Building(j) = {} => Building(j)' = {}
<1>1. /\ build'[b].key = k /\ build'[b].model = Value(env[AiZone], k)
      /\ \A o \in Builds \union Swaps : o # b => build'[o] = build[o]
  BY BeginOK
<1>2. \A j \in Keys : Value(env[AiZone], j)' = Value(env[AiZone], j)
  BY DEF Value
<1>3. \A j \in Keys : \A o \in Building(j)' : o \in Building(j) \/ (o = b /\ j = k)
  BY <1>1 DEF Building
<1>4. \A j \in Keys : \A o \in Building(j)' : o # b => build'[o] = build[o] /\ o \in Building(j)
  BY <1>1 DEF Building
<1>5. \A j \in Keys : b \in Building(j)' => j = k
  BY <1>1 DEF Building
<1>6. ASSUME NEW j \in Keys, Fresh(j) PROVE Fresh(j)'
  <2> SUFFICES ASSUME (Len(env[AiZone].lines[j]) = 1)', NEW o \in Building(j)'
               PROVE  (build[o].model = Value(env[AiZone], j))'
    BY DEF Fresh
  <2>1. CASE o = b
    BY <1>1, <1>2, <1>5, <2>1
  <2>2. CASE o # b
    BY <1>2, <1>4, <1>6, <2>2 DEF Fresh
  <2> QED BY <2>1, <2>2
<1>7. ASSUME NEW j \in Keys, j # k, Building(j) = {} PROVE Building(j)' = {}
  BY <1>3, <1>7
<1> QED BY <1>6, <1>7

(* ... and ends.                                                           *)
LEMMA OverHeld ==
  ASSUME Types, NEW b \in Builds \union Swaps, Over(b), env' = env
  PROVE  /\ \A j \in Keys : Fresh(j) => Fresh(j)'
         /\ \A j \in Keys : Building(j)' \subseteq Building(j)
<1>1. build'[b].model = None /\ \A o \in Builds \union Swaps : o # b => build'[o] = build[o]
  BY OverOK, NoBuildOK
<1>2. \A j \in Keys : Value(env[AiZone], j)' = Value(env[AiZone], j)
  BY DEF Value
<1>3. \A j \in Keys : \A o \in Building(j)' : o \in Building(j) /\ build'[o] = build[o]
  BY <1>1 DEF Building
<1> QED BY <1>2, <1>3 DEF Fresh

LEMMA RecreateHeld ==
  ASSUME Types, NEW b \in Builds \union Swaps, build[b].model # None, Recreate(b), env' = env
  PROVE  /\ \A j \in Keys : Fresh(j) /\ Runs(j) => Runs(j)'
         /\ \A j \in Keys : j = build[b].key /\ Fresh(j) => Runs(j)'
<1>1. run \in [Keys -> Models] /\ build[b].key \in Keys /\ b \in Building(build[b].key)
  BY DEF Types, FilesOK, RunOK, Building
<1>2. \A j \in Keys : Value(env[AiZone], j)' = Value(env[AiZone], j)
  BY DEF Value
<1>3. PICK k \in Keys : k = build[b].key
  BY <1>1
<1>4. run' = [run EXCEPT ![k] = build[b].model]
  BY <1>3 DEF Recreate
<1>5. run'[k] = build[b].model /\ \A j \in Keys : j # k => run'[j] = run[j]
  BY <1>1, <1>4
<1>6. Fresh(k) => Runs(k)'
  BY <1>1, <1>2, <1>3, <1>5 DEF Fresh, Runs
<1>7. \A j \in Keys : j # k /\ Runs(j) => Runs(j)'
  BY <1>2, <1>5 DEF Runs
<1> QED BY <1>3, <1>6, <1>7

LEMMA SameSays ==
  ASSUME env' = env
  PROVE  \A j : \A m : Says(j, m) => Says(j, m)'
BY DEF Says, Value

(* Nobody is alone when somebody else writes. *)
LEMMA NotAloneLone ==
  ASSUME Types, NEW s, NEW q \in Swaps, q # s
  PROVE  ~NotAlone(s)[q].lone
<1>1. swap[q] \in SwapRec
  BY DEF Types
<1> QED BY <1>1 DEF NotAlone, SwapRec

LEMMA SwapHeld ==
  ASSUME Types, HeldInv, NEW s \in Swaps, SwapStep(s)
  PROVE  HeldInv'
<1>1. swap \in [Swaps -> SwapRec] /\ swap[s] \in SwapRec /\ env[AiZone] \in File
  BY ZoneAssumption DEF Types, FilesOK
<1>2. NotAlone(s) \in [Swaps -> SwapRec] /\ NotAlone(s)[s] = swap[s]
  BY <1>1, NotAloneOK DEF NotAlone
<1>3. CASE /\ swap[s].pc \in {"started", "read", "written", "composing"}
           /\ \A q \in Swaps : q # s => swap'[q] = swap[q] \/ swap'[q] = NotAlone(s)[q]
  <2>1. \A q \in Swaps : q # s => ~swap[q].lone
    BY <1>3 DEF HeldInv, Held
  <2>2. \A q \in Swaps : q # s => ~swap'[q].lone
    BY <1>3, <2>1, NotAloneLone
  <2>3. \A q \in Swaps : q # s => Held(q)'
    BY <2>2 DEF Held
  <2>4. swap[s].lone => \A o \in Swaps \ {s} : swap'[o].pc \in {"free", "done"}
    BY <1>3, NotAloneOK DEF HeldInv, Held
  <2>5. CASE ReadEnv(s)
    <3>1. /\ env' = env /\ run' = run /\ build' = build /\ swap[s].pc = "started"
          /\ swap' = [swap EXCEPT ![s] = [swap[s] EXCEPT !.pc = "read", !.seen = env[AiZone]]]
      BY <2>5 DEF ReadEnv, host
    <3>2. /\ swap'[s].pc = "read" /\ swap'[s].seen = env'[AiZone]
          /\ swap'[s].key = swap[s].key /\ swap'[s].lone = swap[s].lone
      BY <1>1, <3>1 DEF SwapRec
    <3>3. swap[s].lone => Building(swap[s].key)' = {}
      BY <3>1 DEF HeldInv, Held, Building
    <3>4. Held(s)'
      BY <2>4, <3>2, <3>3 DEF Held, Building
    <3> QED BY <2>3, <3>4 DEF HeldInv
  <2>6. CASE WriteEnv(s)
    <3> DEFINE k == swap[s].key
               file == WithKey(swap[s].seen, k, swap[s].model)
    <3>1. /\ swap[s].pc = "read" /\ swap[s].model \in Models /\ k \in Keys /\ swap[s].seen \in File
          /\ build' = build
      BY <1>1, <2>6 DEF WriteEnv, Types, Chosen, SwapRec
    <3>2. env'[AiZone] = file
      BY <2>6, ZoneAssumption DEF WriteEnv, Types, FilesOK
    <3>3. /\ swap'[s].pc = "written" /\ swap'[s].key = k /\ swap'[s].model = swap[s].model
          /\ swap'[s].lone = swap[s].lone
      BY <1>1, <1>2, <2>6 DEF WriteEnv, SwapRec
    <3>4. Says(k, swap[s].model)'
      <4>1. Len(file.lines[k]) = 1 => Value(file, k) = swap[s].model
        BY <3>1, WithKeySays
      <4>2. Value(env[AiZone], k)' = Value(file, k)
        BY <3>2, <3>3 DEF Value
      <4> HIDE DEF file
      <4> QED BY <3>2, <3>3, <4>1, <4>2 DEF Says, Value
    <3>5. swap[s].lone => Building(k)' = {}
      BY <3>1, <3>3 DEF HeldInv, Held, Building
    <3>6. Held(s)'
      BY <2>4, <3>3, <3>4, <3>5 DEF Held, Says, Value, Fresh, Building
    <3> QED BY <2>3, <3>6 DEF HeldInv
  <2>7. CASE Compose(s)
    <3>1. swap[s].key \in Keys /\ Begin(s, swap[s].key) /\ env' = env /\ swap[s].pc = "written"
      BY <1>1, <2>7 DEF Compose, SwapRec
    <3>2. swap' = [swap EXCEPT ![s] = [swap[s] EXCEPT !.pc = "composing"]]
      BY <2>7 DEF Compose
    <3>3. /\ swap'[s].pc = "composing" /\ swap'[s].key = swap[s].key /\ swap'[s].lone = swap[s].lone
          /\ swap'[s].model = swap[s].model
      BY <1>1, <3>2 DEF SwapRec
    <3>4. PICK k, m : k \in Keys /\ k = swap[s].key /\ m = swap[s].model
      BY <3>1
    <3>5. swap[s].lone => Says(k, m)' /\ Fresh(k)'
      BY <3>1, <3>4, BeginHeld, SameSays DEF HeldInv, Held
    <3>6. Held(s)'
      BY <2>4, <3>3, <3>4, <3>5 DEF Held
    <3> QED BY <2>3, <3>6 DEF HeldInv
  <2>8. CASE Composed(s)
    <3>1. /\ swap[s].key \in Keys /\ build[s].key = swap[s].key /\ build[s].model # None
          /\ Recreate(s) /\ Over(s) /\ env' = env /\ swap[s].pc = "composing"
      BY <1>1, <2>8 DEF Composed, SwapRec, Types, ComposeOK, Running
    <3>2. swap' = [swap EXCEPT ![s] = [swap[s] EXCEPT !.pc = "done"]]
      BY <2>8 DEF Composed
    <3>3. /\ swap'[s].pc = "done" /\ swap'[s].key = swap[s].key /\ swap'[s].lone = swap[s].lone
          /\ swap'[s].model = swap[s].model
      BY <1>1, <3>2 DEF SwapRec
    <3>4. PICK k, m : k \in Keys /\ k = swap[s].key /\ m = swap[s].model
      BY <3>1
    <3>5. swap[s].lone => Says(k, m)' /\ Fresh(k)' /\ Runs(k)'
      <4>1. swap[s].lone => Says(k, m) /\ Fresh(k)
        BY <3>1, <3>4 DEF HeldInv, Held
      <4> QED BY <3>1, <3>4, <4>1, OverHeld, RecreateHeld, SameSays
    <3>6. Held(s)'
      BY <2>4, <3>3, <3>4, <3>5 DEF Held
    <3> QED BY <2>3, <3>6 DEF HeldInv
  <2>9. CASE SwapFails(s)
    <3>1. ~swap'[s].lone
      BY <1>1, <2>9 DEF SwapFails, FreeSwap
    <3> QED BY <2>3, <3>1 DEF HeldInv, Held
  <2> QED BY <1>3, <2>5, <2>6, <2>7, <2>8, <2>9 DEF SwapStep, StartSwap
<1>4. ASSUME NEW k \in Keys, NEW m \in Catalog[k], StartSwap(s, k, m)
      PROVE  HeldInv'
  <2>1. \A q \in Swaps : q # s => ~swap'[q].lone /\ swap'[q].pc = swap[q].pc
    <3>1. \A q \in Swaps : q # s => swap'[q] = NotAlone(s)[q]
      BY <1>2, <1>4 DEF StartSwap
    <3> QED BY <3>1, NotAloneLone, NotAloneOK
  <2>2. /\ swap'[s].pc = "started" /\ swap'[s].key = k
        /\ swap'[s].lone => Building(k) = {} /\ \A o \in Swaps \ {s} : swap[o].pc \in {"free", "done"}
    BY <1>2, <1>4 DEF StartSwap
  <2>3. Building(k)' = Building(k)
    BY <1>4 DEF StartSwap, host, Building
  <2>4. Held(s)'
    BY <2>1, <2>2, <2>3 DEF Held, Building
  <2> QED BY <2>1, <2>4 DEF HeldInv, Held
<1>5. \/ /\ swap[s].pc \in {"started", "read", "written", "composing"}
         /\ \A q \in Swaps : q # s => swap'[q] = swap[q] \/ swap'[q] = NotAlone(s)[q]
      \/ \E k \in Keys : \E m \in Catalog[k] : StartSwap(s, k, m)
  BY <1>1, <1>2 DEF SwapStep, ReadEnv, WriteEnv, Compose, Composed, SwapFails
<1> QED BY <1>3, <1>4, <1>5

LEMMA SaveHeld ==
  ASSUME Types, HeldInv, NEW p \in Puts, SaveStep(p)
  PROVE  HeldInv'
<1>1. CASE Write(p) /\ put[p].zone = AiZone
  <2>1. \A s \in Swaps : ~swap'[s].lone
    BY <1>1, NotAloneLone, ZoneAssumption DEF Write
  <2> QED BY <2>1 DEF HeldInv, Held
<1>2. CASE Write(p) /\ put[p].zone # AiZone
  <2>1. env'[AiZone] = env[AiZone] /\ run' = run /\ swap' = swap /\ build' = build
    BY <1>2, ZoneAssumption DEF Write, Types, FilesOK
  <2> QED BY <2>1 DEF HeldInv, Held, Says, Runs, Fresh, Building, Value
<1>3. CASE Save(p) \/ Saved(p) \/ SaveFails(p)
  BY <1>3, SameHeld DEF Save, Saved, SaveFails, host
<1> QED BY <1>1, <1>2, <1>3 DEF SaveStep

LEMMA FormHeld ==
  ASSUME HeldInv, NEW g \in Gets, FormStep(g)
  PROVE  HeldInv'
BY SameHeld DEF FormStep, Reload, LoadFails, Load, Read, Open, host

(* A rebuild begun before .env is written ends what the swap was promised; *)
(* one begun later knows the new model.                                    *)
LEMMA BuildHeld ==
  ASSUME Types, HeldInv, NEW b \in Builds, BuildStep(b)
  PROVE  HeldInv'
<1>1. env' = env
  BY BuildKinds
<1>2. \A s \in Swaps : swap[s] \in SwapRec
  BY DEF Types
<1>3. \A s \in Swaps : /\ swap'[s].pc = swap[s].pc /\ swap'[s].key = swap[s].key
                       /\ swap'[s].model = swap[s].model /\ swap'[s].seen = swap[s].seen
                       /\ swap'[s].lone => swap[s].lone
  <2>1. swap' = swap \/ \E k \in Keys : Rebuild(b, k)
    BY BuildKinds
  <2> QED BY <1>2, <2>1 DEF Rebuild, SwapRec
<1> SUFFICES ASSUME NEW s \in Swaps, swap'[s].lone PROVE Held(s)'
  BY DEF HeldInv, Held
<1>4. PICK k, m : k \in Keys /\ k = swap[s].key /\ m = swap[s].model
  BY <1>2 DEF SwapRec
<1>5. swap[s].lone /\ Held(s)
  BY <1>3 DEF HeldInv
<1>6. swap[s].pc \in {"started", "read"} /\ Building(k) = {} => Building(k)' = {}
  <2>1. CASE Over(b)
    <3>1. Building(k)' \subseteq Building(k)
      BY <1>1, <1>2, <1>4, <2>1, OverHeld DEF SwapRec
    <3> QED BY <3>1
  <2>2. ASSUME NEW j \in Keys, Rebuild(b, j), swap[s].pc \in {"started", "read"}, Building(k) = {}
        PROVE  Building(k)' = {}
    <3>1. j # k
      BY <1>2, <1>4, <2>2 DEF Rebuild, SwapRec
    <3> QED BY <1>1, <1>4, <2>2, <3>1, BeginHeld DEF Rebuild
  <2> QED BY <2>1, <2>2, BuildKinds
<1>7. Fresh(k) => Fresh(k)'
  <2>1. CASE Over(b)
    BY <1>1, <1>4, <2>1, OverHeld
  <2>2. CASE \E j \in Keys : Begin(b, j)
    BY <1>1, <1>4, <2>2, BeginHeld
  <2> QED BY <2>1, <2>2, BuildKinds
<1>8. Fresh(k) /\ Runs(k) => Runs(k)'
  <2>1. CASE Recreate(b) /\ build[b].model # None
    BY <1>1, <1>4, <2>1, RecreateHeld
  <2>2. CASE run' = run
    BY <1>1, <2>2 DEF Runs, Value
  <2> QED BY <2>1, <2>2, BuildKinds
<1>9. Says(k, m) => Says(k, m)'
  BY <1>1, SameSays
<1> QED BY <1>1, <1>3, <1>4, <1>5, <1>6, <1>7, <1>8, <1>9 DEF Held

LEMMA EditHeld ==
  ASSUME HeldInv, NEW k \in Keys, NEW m \in Catalog[k], Edit(k, m)
  PROVE  HeldInv'
BY SameHeld DEF Edit, host

LEMMA NextHeld == Types /\ HeldInv /\ [Next]_vars => HeldInv'
<1>1. HeldInv /\ (Close \/ UNCHANGED vars) => HeldInv'
  BY SameHeld DEF Close, vars, host
<1> QED BY <1>1, SwapHeld, SaveHeld, FormHeld, BuildHeld, EditHeld, NextSteps

(* However many swaps, saves and rebuilds there are, one that had the file  *)
(* to itself from its start on (handleAISwapSwap with writeDotEnvKey), with *)
(* no rebuild of its service begun before it wrote .env (handleRebuild),    *)
(* and reported its end is what .env says and what the container runs, also *)
(* while rebuilds begun later come to their end.                            *)
THEOREM SwapIsHeld == Spec => []SwapHolds
<1>1. Types /\ HeldInv /\ [Next]_vars => (Types /\ HeldInv)'
  BY NextTypes, NextHeld
<1>2. HeldInv => SwapHolds
  BY DEF HeldInv, Held, Says, Runs, SwapHolds
<1> QED BY InitTypes, InitHeld, <1>1, <1>2, PTL DEF Spec
=============================================================================
