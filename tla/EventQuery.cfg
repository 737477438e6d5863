SPECIFICATION MCSpec
CONSTANTS
  None = None
  Catalogue <- MCCatalogue
  Embeds <- MCEmbeds
  Words = {"ip1", "h1", "query", "n1", "300"}
  Keys = {"@ip", "@mac", "@sid", "host", "dns.type", "dns.rrname", "src_ip", "dns.queries.rrname", "dns.answers.rdata", "dns.answers.ttl", "dns.authorities.rdata"}
  ArrayOf <- MCArrayOf
  Numeric = {"dns.answers.ttl"}
  RareDocs = 1
  Times = {2, 140}
  Now = 131
  Intervals = {None, 40}
  MaxTokens = 2
  Sensors = {"h1", "h2"}
  MaxSamples = 3
  MaxGrowth = 2
INVARIANTS
  SearchAgrees
  ReportsAgree
  DiffWithinGrowth
PROPERTIES
  ElementNarrows
CHECK_DEADLOCK FALSE
