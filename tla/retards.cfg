CONSTANTS
    w1 = w1
    w2 = w2
    Nul = Nul
    Workers <- MCWorkers
    Duree = 1
    TicsParSeconde = 2
    TicsParJour = 4
    Saisies = {2}
    MaxHorloge = 7
    MaxIdEmprunt = 2
SPECIFICATION Spec
SYMMETRY MCSymetrie
INVARIANT Chronologie
PROPERTY RetardPermanent
PROPERTY RetourUneFois
