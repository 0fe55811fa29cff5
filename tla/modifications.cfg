SPECIFICATION Spec
CONSTANTS
    box = box
    servo = servo
    arm = arm
    driver = driver
    m1 = m1
    m2 = m2
    m3 = m3
    sg90 = sg90
    None = None
    Components = {box, servo, arm, driver}
    Families = {"enclosure", "servo", "simple_arm", "motor_driver"}
    Offers <- MCOffers
    Connections = {m1, m2, m3}
    Dimensions = {"width", "height"}
    Sizes = {"small", "large"}
    Settings = {"relay", "mosfet"}
    Mosfet = "mosfet"
    Drivers = {"motor_driver"}
    Definitions = {sg90}
    Catalogue <- MCCatalogue
    Plan <- MCPlan
    MaxRevisions = 4
INVARIANTS TypeOK EveryPartIsPlaced InterfacesAreNotShared ConnectionsAgree MatesFit UndoRestores
CHECK_DEADLOCK FALSE
