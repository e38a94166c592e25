SPECIFICATION FairSpec
CONSTANTS
  a1 = a1
  a2 = a2
  t1 = t1
  t2 = t2
  t3 = t3
  m1 = m1
  m2 = m2
  m3 = m3
  Agents = {a1, a2}
  Watched = {a1, a2}
  Terminals = {t1, t2, t3}
  Messages = {m1, m2, m3}
  NoAgent = NoAgent
  Nobody = Nobody
  Configured = NoAgent
  MaxTimers = 3
  NameOf <- MCNameOf
  Operation <- MCOperation
  Budgets <- MCBudgets
INVARIANT SessionsAgree
INVARIANT TargetIsSound
INVARIANT EnterFollowsText
INVARIANT FlickerIsCaught
PROPERTY ChannelSpec
PROPERTY StreamIsRead
CHECK_DEADLOCK FALSE
