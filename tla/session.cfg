CONSTANTS
    t1 = t1
    t2 = t2
    Nul = "personne"
    Onglets <- MCOnglets
    Comptes = {"biblio", "adherent"}
    Biblios = {"biblio"}
    MaxJetons = 6
    MaxGestes = 3
SPECIFICATION FairSpec
CHECK_DEADLOCK FALSE
INVARIANT Inv
INVARIANT JetonVisible
INVARIANT MemeCompte
PROPERTY DeconnexionComplete
PROPERTY PasDeBoucle
