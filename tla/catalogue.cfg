CONSTANTS
    w1 = w1
    w2 = w2
    l1 = l1
    a1 = a1
    a2 = a2
    c1 = c1
    Nul = Nul
    Vide = ""
    Workers <- MCWorkers
    Livres <- MCLivres
    Auteurs <- MCAuteurs
    Categories <- MCCategories
    Mots = {"dune"}
SPECIFICATION Spec
SYMMETRY MCSymetrie
INVARIANT LiensValides
INVARIANT RechercheJuste
PROPERTY DernierFormulaire
