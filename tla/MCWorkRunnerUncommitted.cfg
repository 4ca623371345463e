SPECIFICATION Spec
CONSTANTS
  t1 = t1
  t2 = t2
  s1 = s1
  s2 = s2
  c1 = c1
  c2 = c2
  fixture = fixture
  coding = coding
  NoTask = NoTask
  NoPayload = NoPayload
  Nobody = Nobody
  Tasks <- MCOneTask
  Payloads <- MCPayloads
  CodingPayloads <- MCCoding
  Services <- MCOneService
  Clients <- MCOneClient
  Capacity = 2
  CodingEnabled = TRUE
PROPERTY UncommittedIsInterrupted
