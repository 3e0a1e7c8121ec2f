CONSTANTS
    d1 = d1
    d2 = d2
    rel1 = rel1
    rel2 = rel2
    help1 = help1
    help2 = help2
    s1 = s1
    s2 = s2
    article = article
    related = related
    sources = sources
    Readers <- MCMixedReaders
    Keys <- MCKeys
    KeyOf <- MCKeyOf
    Helper <- MCHelper
    Unembedded <- MCUnembedded
    Details <- MCDetails
    Uncoalesced <- MCLists
    Born <- MCBorn
    MaxVersion = 1
    MaxCacheLosses = 0
    MaxOutages = 1
    MaxQueryFailures = 1
SPECIFICATION FairSpec
PROPERTY EveryReaderAnswered
