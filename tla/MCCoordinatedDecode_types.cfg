SPECIFICATION FairSpec
CONSTANTS
  word = word
  endThink = endThink
  eos = eos
  Ranks = {0, 1, 2}
  Root = 0
  Tokens = {word, endThink, eos}
  StopTokens = {eos}
  EndTags = {endThink}
  ZeroToken = word
  Prompts <- PromptSet
  MaxContext = 3
  ActivationLength = 2
  MaxTokens = 3
  MaxAhead = 1
  Budgets <- BudgetSet
  StopThinking <- StopPrompt
  Setups <- SupportedSetups
  StagesFail = TRUE
  ChatTemplates = {TRUE}
INVARIANT TypeOK
CHECK_DEADLOCK FALSE
