CONSTANTS
    d1 = d1
    d2 = d2
    rel1 = rel1
    rel2 = rel2
    help1 = help1
    help2 = help2
    s1 = s1
    s2 = s2
    article = article
    related = related
    sources = sources
    Readers <- MCRelatedReaders
    Keys <- MCKeys
    KeyOf <- MCKeyOf
    Helper <- MCHelper
    Unembedded <- MCEmbedded
    Details <- MCDetails
    Uncoalesced <- MCLists
    Born <- MCBornLater
    MaxVersion = 2
    MaxCacheLosses = 1
    MaxOutages = 0
    MaxQueryFailures = 1
SPECIFICATION Spec
INVARIANTS
    TypeOK
    MapIsLoad
    NeverGoesBack
    WarmKeyIsHit
