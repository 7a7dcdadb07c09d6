CONSTANTS
  Workers = {w1, w2}
  Busy = w1
  Threads <- ThreadsOf
  Scrapers = {c1}
  None = None
  Stale = Stale
  Plain = Plain
SPECIFICATION FairSpec
INVARIANTS LiveFileThere ScrapeComplete
PROPERTIES StaleFilesGo InitServes
