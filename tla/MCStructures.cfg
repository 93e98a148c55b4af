SPECIFICATION Spec
CONSTANTS
 Item = {c1, c2, c3}
 Thieves = {w1, w2}
 InitCap = 1
 MaxIndex = 4
 Null = Null
 Scopes = {1, 2}
 Tasks = {o, a, b}
 Opener = o
 Actors = {b}
 Nobody = Nobody
 Posters = {o, a}
 Inside = {a}
 Handlers <- MCHandlers
 MAILBOX_CAP = 2
 MaxSends = 3
 Children = {1, 2}
 Workers = {w1, w2}
 MAX_RESTARTS = 3
 MaxStops = 1
 Clients = {c1, c2, c3}
 Paths = {p1, p2}
 MaxHeld = 3
 Joiners = {c1, c2, c3}
 Ender = ender
 NoOne = NoOne
 Buffers <- MCBuffers
 SsoLimit = 2
 GrowthFloor = 2
 Hash <- MCHash
 MapInitCap = 4
 Slots = {1,2,3}
 Texts <- MCTexts
 Samples <- MCSamples
 MaxOps = 4
 MaxCap = 8
 MaxBroken = 2
 MaxLen = 3
 Keys = {1,2,3,4}
 Vals = {1,2}
 TextCases <- MCTextCases
 Word = 4
 Mantissa = 2
 MaxSweeps = 64
 NarrowSweeps = 3
 CalcTypes <- MCTypes
 Functions <- MCFunctions
SYMMETRY Symmetry
INVARIANTS EachInOnePlace StealsWhatIsAtTop JoinExact CancelReaches PayloadsSettled SupervisorSettles WaitersServed ContentKept OneOwner MapAgrees ArithSound
CHECK_DEADLOCK FALSE
