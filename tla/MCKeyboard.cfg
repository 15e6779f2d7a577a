SPECIFICATION FairSpec
CONSTANTS
  Keys = {"three", "rshift", "prtsc", "up"}
  MaxEvents = 5
INVARIANTS
  TypeOK DeliveredAsTyped LossExplained SoloShiftHonoured NoStuckShift
  CommandsTypable
PROPERTIES ImplementsMailbox 
