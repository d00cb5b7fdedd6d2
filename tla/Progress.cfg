SPECIFICATION Spec
CONSTANT None = None
PROPERTIES CloseSettles EveryLinkReturns EveryLoadReturns EveryRequestCompletes EveryCallReturns
CHECK_DEADLOCK FALSE
