SPECIFICATION Spec
CONSTANTS
  t1 = t1
  t2 = t2
  s1 = s1
  s2 = s2
  c1 = c1
  c2 = c2
  fixture = fixture
  coding = coding
  NoTask = NoTask
  NoPayload = NoPayload
  Nobody = Nobody
  Tasks <- MCTasks
  Payloads <- MCPayloads
  CodingPayloads <- MCCoding
  Services <- MCServices
  Clients <- MCClients
  Capacity = 2
  CodingEnabled = TRUE
SYMMETRY MCSymmetry
INVARIANTS TypeOK AtMostOneRun TerminalEvidence SuccessEvidence AcknowledgedIsStored
PROPERTIES OrphanIsRefused ImplementsLifecycle
