CONSTANTS
    a = a
    b = b
    pkt = pkt
    inl = inl
    sng = sng
    one = one
    alw = alw
    net = net
    out = out
    w = w
    own = own
    Type = {a, b, pkt}
    Installed <- Order
    Sentence <- Sentences
    Emits <- EmittedBy
    Scopes <- ScopesOf
    Throws = {sng, alw}
    Handled = {alw}
    Thread = {out, w, own}
    Outside = {out}
    Default = w
    Serves <- ServedBy
    MaxEmits = 2
SPECIFICATION FairSpec
INVARIANTS BufferKept OwnContext
PROPERTIES AlwaysGoesOn
CHECK_DEADLOCK FALSE
