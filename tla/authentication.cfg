\* Two requests, a key rotation, two identities that share an address.
SPECIFICATION FairSpec
CONSTANTS
    ann = ann
    bob = bob
    Keys = {k1, k2}
    Subs = {ann, bob}
    Emails = {"x", "y"}
    Tokens <- AddressMoves
    Requests = {r1, r2}
    Refresh = 1
INVARIANTS
    PublishedKeysAreKnown
PROPERTIES
    WithdrawnKeysExpire
    RowsStay
    WithdrawnStayForgotten
