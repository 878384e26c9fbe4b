\* Two host sessions that follow one another or, after a late insert of a
\* room, overlap; no candidates (MCNegotiationIce has them).
CONSTANTS
    Hosts = {h1, h2}
    Clients = {c1}
    None = None
    MaxRetries = 2
    MaxIce = 0
SPECIFICATION FairSpec
CHECK_DEADLOCK FALSE
INVARIANT NoOpenPcIsForgotten
PROPERTIES OfferIsAnswered NothingOutlivesSignalling
