------------------------------ MODULE PageOwners ------------------------------
(*
 * What the boot owes the memory: a page has at most one owner, the pool of
 * core 0 receives it from the memory map, and from then on it changes hands
 * one at a time and never comes back.
 *)
CONSTANT Page

VARIABLE owners   \* the owners of each page

Pool0 == "pool of core 0"
Pool1 == "pool of core 1"

Init == owners = [p \in Page |-> {}]

Found ==
    /\ DOMAIN owners' = Page
    /\ \A p \in Page : \/ owners'[p] = owners[p]
                      \/ (owners[p] = {} /\ owners'[p] = {Pool0})

\* A pool gives a page to its core, or that of core 0 gives it to the other.
Give(p, pool, to) ==
    /\ owners[p] = {pool}
    /\ to \in {Pool1, "core 0", "core 1", "both"}
    /\ pool = Pool1 => to = "core 1"
    /\ owners' = [owners EXCEPT ![p] = {to}]

Next ==
    \/ Found
    \/ \E p \in Page, pool \in {Pool0, Pool1} :
          \E to \in {Pool1, "core 0", "core 1", "both"} : Give(p, pool, to)

Spec == Init /\ [][Next]_owners
================================================================================
