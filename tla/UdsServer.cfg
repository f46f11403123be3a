\* Two connections, every installation; a prompt with END makes one
\* connection a sequence of commands.
SPECIFICATION UdsSpec
CONSTANTS
  Asks <- SomeAsks
  Setups = {"sound", "tight", "wide"}
  MaxConns = 2
  MaxOpen = 2
  n_ctx = 2
  MaxPrompt = 1
  MaxNew = 1
INVARIANTS PromptIsWhole OneAnswer DownHasReason OneLoad OnlyThisQuestion
PROPERTY ClientIsServed
