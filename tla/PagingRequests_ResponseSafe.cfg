\* One subscriber, one queued callback; a paging response is answered by
\* the security procedure with each of its outcomes.
CONSTANTS
    Subs = {s1}
    Cbs = {c1}
    NoSub = NoSub
SPECIFICATION Spec
INVARIANT PagingResponseSafe
