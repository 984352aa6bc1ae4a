SPECIFICATION Spec
CONSTANTS
    Units = 4
    Parts = 3
    Udp = FALSE
    MaxChannel = 6
    MaxDouble = 0
PROPERTIES
    DeliversInOrder
