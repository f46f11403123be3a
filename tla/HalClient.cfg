\* Two requests over two sessions; those of s1 may overlap.
SPECIFICATION HalClientSpec
CONSTANTS
  Requests = {r1, r2}
  SessionIds = {s1, s2}
  NoFlag = NoFlag
  MaxNew = 2
  MaxNews = {2}
  OverlapIds = {s1}
  Tools = {r1}
  BinderBuffer = 1
INVARIANTS FlagMapIsCurrent CancelIsPrompt ErrorComesAlone InFlightIsCancellable StreamArrives
PROPERTY ClientFinishes
