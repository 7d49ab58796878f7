CONSTANTS
    Getters = {g1, g2}
SPECIFICATION FairSpec
PROPERTIES GetReturnsOnceFnHas
CHECK_DEADLOCK FALSE
