\* Delegation
SPECIFICATION Spec
CONSTANTS
  lead = lead
  mate = mate
  chat = chat
  mail = mail
  Call = {c1, c2, c3}
  Agent = {lead, mate}
  Root = {chat, mail}
  RootAgent <- MCRootAgent
  NoCall = NoCall
  sales = sales
  Channels <- MCChannels
  MayDelegate = {lead}
  Accepts = {mate}
  DelegateTo <- MCDelegateTo
  MaxDepth <- MCMaxDepth
  Caps <- MCCaps
  Window = 2
  MaxUse = 1
  FanOut = 2
  MaxFaults = 1
INVARIANT TypeOK
INVARIANT BudgetIsExact
INVARIANT OneBudgetPerRoot
INVARIANT SameLimits
INVARIANT CapsUpToFanOut
SYMMETRY MCSymmetry
\* Every call is over when nobody delegates any more.
CHECK_DEADLOCK FALSE
