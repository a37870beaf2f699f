CONSTANTS
    moi = moi
    l1 = l1
    l2 = l2
    Nul = Nul
    Moi = moi
    Utilisateurs <- MCUtilisateurs
    Livres <- MCLivres
    MaxEmprunts = 2
    MaxReservations = 2
    Pretables <- MCPretables
    Initiales <- MCInitiales
    Coordonnees = {"ici", "ailleurs"}
    MaxJeux = 3
    MaxSauvegardes = 2
    MaxEnvois = 3
SPECIFICATION FairSpec
CHECK_DEADLOCK FALSE
INVARIANT Inv
INVARIANT ProfilAJour
INVARIANT AnnuleeInvisible
INVARIANT SuccesVrai
PROPERTY PageRepond
PROPERTY AnnulationVue
