SPECIFICATION CampaignsSpec
CONSTANTS
  m0 = m0
  m1 = m1
  PowerModes = {m0, m1}
  Current = Current
  NoMode = NoMode
  Plans <- OneOrTwoModes
  Schedule <- LoadAndCool
  Window = 2
  MinSamples = 2
  Overhead = 1
INVARIANTS AnomalyIsNotMasked
