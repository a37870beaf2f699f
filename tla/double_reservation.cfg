CONSTANTS
    u1 = u1
    u2 = u2
    l1 = l1
    l2 = l2
    w1 = w1
    w2 = w2
    Nul = Nul
    Utilisateurs <- MCUtilisateurs
    Livres <- MCLivres
    Workers <- MCDeuxWorkers
    Operations <- MCReservations
    MaxEmprunts = 1
    MaxReservations = 1
    MaxIdEmprunt = 1
    MaxIdReservation = 2
SPECIFICATION Spec
INVARIANT JamaisTropDeReservations
CHECK_DEADLOCK FALSE
