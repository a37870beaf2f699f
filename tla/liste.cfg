CONSTANTS
    Recherches = {"", "dune"}
    Vide = ""
    Limite = 2
    MaxLivres = 3
    MaxRequetes = 3
    MaxModifs = 1
SPECIFICATION FairSpec
INVARIANT SablierJustifie
INVARIANT PagesRemplies
INVARIANT ListeAJour
INVARIANT AucunLivre
PROPERTY ChargementFinit
PROPERTY TientPromesse
