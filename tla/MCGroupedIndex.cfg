SPECIFICATION Spec
CONSTANTS
  doc1 = doc1
  doc2 = doc2
  doc3 = doc3
  doc4 = doc4
  wealth = wealth
  health = health
  t1 = t1
  t2 = t2
  Docs = {doc1, doc2, doc3, doc4}
  Groups = {wealth, health}
  Threads = {t1, t2}
  Name <- Names
  Group <- Values
SYMMETRY Symmetry
INVARIANTS TypeOK Aligned NamesUnique KeptIsListed
