\* The executor and a request emit; a client connects, leaves and reconnects.
CONSTANTS
  Emitters = {executor, request}
  Cancellable = {executor}
  Subscribers = {s1}
  MaxEvents = 3
  None = None
SPECIFICATION FairSpec
INVARIANTS TypeOK DeliveredOnce NothingMissed EmitterOrder StreamedIsStored
PROPERTY EventArrives
