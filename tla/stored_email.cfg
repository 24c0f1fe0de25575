\* The address of ann changes: what the documentation says of her row.
SPECIFICATION FairSpec
CONSTANTS
    ann = ann
    bob = bob
    Keys = {k1, k2}
    Subs = {ann, bob}
    Emails = {"x", "y"}
    Tokens <- AddressMoves
    Requests = {r1, r2}
    Refresh = 1
PROPERTIES
    EmailIsUpdated
