SPECIFICATION FairSpec
CONSTANTS
  Topics = {t1, t2}
  MaxSubscribes = 3
  MaxPublishes = 1
  MaxMessages = 2
  MaxConnectionLosses = 1
INVARIANTS SubscriptionsAgree PromiseSetOnce EveryCallbackCalled
PROPERTIES FuturesReady
