CONSTANTS
    w1 = w1
    w2 = w2
    Absent = Absent
    Workers <- MCWorkers
    Emails = {"", "anne@x", "Anne@x"}
    Vide = ""
    Pli <- MCPli
    MotsDePasse = {"p", "q"}
    Coordonnees = {"ici", "ailleurs"}
    Operations <- MCOperations
    MaxIdCompte = 2
SPECIFICATION Spec
SYMMETRY MCSymetrie
INVARIANT Inv
INVARIANT SansCollision
PROPERTY RienNEstPerdu
