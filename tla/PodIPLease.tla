----------------------------- MODULE PodIPLease -----------------------------
(***************************************************************************)
(* What the data store promises its callers, whatever ENIs, maps and       *)
(* counters it keeps: an address on offer is leased to one pod at a time,  *)
(* rests in cooling after its release, and leaves the pool only while no   *)
(* pod has it.  The rest is not kept for an address that leaves the pool   *)
(* meanwhile: DelIPv4AddressFromStore and RemoveENIFromDataStore look only *)
(* at who has an address (data_store.go:227), Recall, and one that comes   *)
(* back (EC2 refused to take it, or IMDS did not list it: ipamd.go:501,    *)
(* 669, 995) has no UnassignedTime (data_store.go:205): Offer makes it     *)
(* free, and it may be leased at once.                                     *)
(***************************************************************************)
CONSTANTS IP, PodKey, NoIP

VARIABLES free, cooling, lease

vars == <<free, cooling, lease>>

Leased == {lease[k] : k \in PodKey} \ {NoIP}

Init ==
  /\ free = {}
  /\ cooling = {}
  /\ lease = [k \in PodKey |-> NoIP]

Offer(ip) ==
  /\ ip \notin free \cup cooling \cup Leased
  /\ free' = free \cup {ip}
  /\ UNCHANGED <<cooling, lease>>

Withdraw(S) ==
  /\ S \subseteq free
  /\ free' = free \ S
  /\ UNCHANGED <<cooling, lease>>

\* The rest of some of the addresses is cut short, and forgotten.
Recall(S) ==
  /\ S \subseteq free \cup cooling
  /\ S \cap cooling # {}
  /\ free' = free \ S
  /\ cooling' = cooling \ S
  /\ UNCHANGED lease

Lease(k, ip) ==
  /\ lease[k] = NoIP
  /\ ip \in free
  /\ free' = free \ {ip}
  /\ lease' = [lease EXCEPT ![k] = ip]
  /\ UNCHANGED cooling

Release(k) ==
  /\ lease[k] # NoIP
  /\ cooling' = cooling \cup {lease[k]}
  /\ lease' = [lease EXCEPT ![k] = NoIP]
  /\ UNCHANGED free

Expire(S) ==
  /\ S \subseteq cooling
  /\ cooling' = cooling \ S
  /\ free' = free \cup S
  /\ UNCHANGED lease

Next ==
  \/ \E ip \in IP : Offer(ip)
  \/ \E S \in SUBSET IP : Withdraw(S) \/ Recall(S) \/ Expire(S)
  \/ \E k \in PodKey, ip \in IP : Lease(k, ip)
  \/ \E k \in PodKey : Release(k)

Spec == Init /\ [][Next]_vars

\* The contract is worth having: a leased address is neither on offer nor
\* cooling, and has one holder.
Exclusive ==
  /\ Leased \cap (free \cup cooling) = {}
  /\ free \cap cooling = {}
  /\ \A k, l \in PodKey : lease[k] = lease[l] /\ lease[k] # NoIP => k = l

=============================================================================
