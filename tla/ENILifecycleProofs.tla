-------------------------- MODULE ENILifecycleProofs --------------------------
(***************************************************************************)
(* Proofs about ENILifecycle, for any number of ENIs and retries and any   *)
(* worlds.                                                                 *)
(*                                                                         *)
(* The agent never detaches or deletes the instance's primary ENI: device  *)
(* 0 stays the primary ENI's, so a started agent finds it, and no call in  *)
(* progress is about it.  No two ENIs are at one device number.            *)
(*                                                                         *)
(* No ENI is left unattached: TidyInv says that only the call in progress  *)
(* owns an ENI that is not in use, and that while it deletes it the tries  *)
(* are no more than what EC2 has refused.  And ENIs go with the instance:  *)
(* CalmInv says that where they do not yet, a call that cannot fail is     *)
(* under way to free them.                                                 *)
(*                                                                         *)
(* What AllocENI and FreeENI promise their caller holds while EC2 and IMDS *)
(* answer (QuietInv), and whatever they answer a call ends after so many   *)
(* of them: callsLeft counts down.                                         *)
(***************************************************************************)
EXTENDS ENILifecycle, TLAPS

\* Device 0 is the primary ENI's.
ZeroIsPrimary ==
  /\ status = [e \in ENI |-> status[e]] /\ device = [e \in ENI |-> device[e]]
  /\ status[Primary] = "in-use" /\ device[Primary] = 0
  /\ \A e \in ENI : e \in Attached /\ device[e] = 0 => e = Primary

\* The agent knows it, and no call is about it.
CallsSpareIt ==
  /\ primaryENI \in {NoENI, Primary}
  /\ pc # "init" => primaryENI = Primary
  /\ pc \in Calls \ {"create"} => eniID \in ENI \ {Primary}

PrimaryInv == ZeroIsPrimary /\ CallsSpareIt

\* The instance starts with its primary ENI only.
LEMMA InitPrimaryInv == ENIInit => PrimaryInv
  <1> SUFFICES ASSUME ENIInit PROVE PrimaryInv
    OBVIOUS
  <1>1. ZeroIsPrimary
    BY ENIAssumption DEF ENIInit, ZeroIsPrimary, Attached
  <1>2. CallsSpareIt
    BY DEF ENIInit, CallsSpareIt, Calls
  <1>3. QED
    BY <1>1, <1>2 DEF PrimaryInv

\* A step that leaves device alone and attaches nothing new keeps device 0 as it is.
LEMMA StatusStep ==
  ASSUME ZeroIsPrimary, NEW e \in ENI \ {Primary}, NEW s, device' = device,
         status' = [status EXCEPT ![e] = s],
         s \in {"none", "available"} \/ e \in Attached
  PROVE  ZeroIsPrimary'
  BY ENIAssumption DEF ZeroIsPrimary, Attached

\* So does one that attaches an ENI at a device number that is not in use.
LEMMA AttachStep ==
  ASSUME ZeroIsPrimary, NEW e \in ENI \ {Primary}, NEW d, d \notin Used,
         device' = [device EXCEPT ![e] = d], status' = [status EXCEPT ![e] = "in-use"]
  PROVE  ZeroIsPrimary'
  <1>1. 0 \in Used
    BY ENIAssumption DEF ZeroIsPrimary, Used, Attached
  <1>2. d # 0
    BY <1>1
  <1>3. QED
    BY <1>2, ENIAssumption, Zenon DEF ZeroIsPrimary, Attached

\* Each step of the agent, of EC2 and of others keeps the invariant.
LEMMA NextPrimaryInv == PrimaryInv /\ [ENINext]_eniVars => PrimaryInv'
  <1> SUFFICES ASSUME PrimaryInv, [ENINext]_eniVars PROVE PrimaryInv'
    OBVIOUS
  <1> USE ENIAssumption DEF PrimaryInv
  <1>0. ASSUME UNCHANGED <<status, device>> PROVE ZeroIsPrimary'
    BY <1>0 DEF ZeroIsPrimary, Attached
  <1>1. CASE setPrimaryENI
    <2>1. ZeroIsPrimary'
      BY <1>0, <1>1 DEF setPrimaryENI, ec2Vars
    <2>2. primaryENI' = Primary /\ pc' = "idle"
      BY <1>1 DEF setPrimaryENI, hasInstanceMAC, ZeroIsPrimary, Attached
    <2>3. QED
      BY <2>1, <2>2 DEF CallsSpareIt, Calls
  <1>2. CASE GetAttachedENIs \/ AllocENI
    <2>1. ZeroIsPrimary'
      BY <1>0, <1>2 DEF GetAttachedENIs, AllocENI, ec2Vars
    <2>2. CallsSpareIt'
      BY <1>2 DEF GetAttachedENIs, AllocENI, CallsSpareIt, Calls
    <2>3. QED
      BY <2>1, <2>2
  <1>3. CASE createENI
    <2>1. primaryENI' = primaryENI /\ device' = device /\ pc = "create"
      BY <1>3 DEF createENI
    <2>2. ASSUME NEW e \in ENI, status[e] = "none", status' = [status EXCEPT ![e] = "available"],
                 (eniID' = e /\ pc' = "device") \/ pc' = "idle"
          PROVE  PrimaryInv'
      <3>1. e # Primary
        BY <2>2 DEF ZeroIsPrimary
      <3>2. ZeroIsPrimary'
        BY <2>1, <2>2, <3>1, StatusStep, Zenon
      <3>3. CallsSpareIt'
        BY <2>1, <2>2, <3>1 DEF CallsSpareIt, Calls
      <3>4. QED
        BY <3>2, <3>3
    <2>3. ASSUME pc' = "idle", UNCHANGED status PROVE PrimaryInv'
      BY <1>0, <2>1, <2>3 DEF CallsSpareIt, Calls
    <2>4. QED
      BY <1>3, <2>2, <2>3 DEF createENI
  <1>4. CASE awsGetFreeDeviceNumber
    <2>1. ZeroIsPrimary'
      BY <1>0, <1>4 DEF awsGetFreeDeviceNumber, ec2Vars
    <2>2. CallsSpareIt'
      BY <1>4 DEF awsGetFreeDeviceNumber, attachFailed, CallsSpareIt, Calls
    <2>3. QED
      BY <2>1, <2>2
  <1>5. CASE attachENI
    <2>1. eniID \in ENI \ {Primary}
      BY <1>5 DEF attachENI, CallsSpareIt, Calls
    <2>2. ZeroIsPrimary'
      BY <1>0, <1>5, <2>1, AttachStep DEF attachENI
    <2>3. CallsSpareIt'
      BY <1>5 DEF attachENI, attachFailed, CallsSpareIt, Calls
    <2>4. QED
      BY <2>2, <2>3
  <1>6. CASE ModifyNetworkInterfaceAttribute
    <2>1. ZeroIsPrimary'
      BY <1>0, <1>6 DEF ModifyNetworkInterfaceAttribute
    <2>2. CallsSpareIt'
      BY <1>6 DEF ModifyNetworkInterfaceAttribute, CallsSpareIt, Calls
    <2>3. QED
      BY <2>1, <2>2
  <1>7. CASE DescribeENI
    <2>1. ZeroIsPrimary'
      BY <1>0, <1>7 DEF DescribeENI, ec2Vars
    <2>2. CallsSpareIt'
      BY <1>7 DEF DescribeENI, return, CallsSpareIt, Calls
    <2>3. QED
      BY <2>1, <2>2
  <1>8. CASE DetachNetworkInterface
    <2>1. eniID \in ENI \ {Primary} /\ device' = device
      BY <1>8 DEF DetachNetworkInterface, CallsSpareIt, Calls
    <2>2. CASE status[eniID] = "in-use" /\ status' = [status EXCEPT ![eniID] = "detaching"]
      <3>1. eniID \in Attached
        BY <2>1, <2>2 DEF Attached
      <3>2. QED
        BY <1>8, <2>1, <2>2, <3>1, StatusStep, Zenon DEF DetachNetworkInterface, return, CallsSpareIt, Calls
    <2>3. CASE UNCHANGED status
      BY <1>0, <1>8, <2>1, <2>3 DEF DetachNetworkInterface, return, CallsSpareIt, Calls
    <2>4. QED
      BY <1>8, <2>2, <2>3, Zenon DEF DetachNetworkInterface
  <1>9. CASE deleteENI
    <2>1. eniID \in ENI \ {Primary} /\ device' = device
      BY <1>9 DEF deleteENI, CallsSpareIt, Calls
    <2>2. status' = [status EXCEPT ![eniID] = "none"] \/ UNCHANGED status
      BY <1>9, Zenon DEF deleteENI
    <2>3. ZeroIsPrimary'
      BY <1>0, <2>1, <2>2, StatusStep
    <2>4. CallsSpareIt'
      BY <1>9 DEF deleteENI, return, CallsSpareIt, Calls
    <2>5. QED
      BY <2>3, <2>4
  <1>10. CASE restart
    BY <1>0, <1>10 DEF restart, ec2Vars, CallsSpareIt, Calls
  <1>11. ASSUME NEW e \in ENI, FreeENI(e) PROVE PrimaryInv'
    <2>1. ZeroIsPrimary'
      BY <1>0, <1>11 DEF FreeENI, ec2Vars
    <2>2. CallsSpareIt'
      BY <1>11 DEF FreeENI, CallsSpareIt, Calls
    <2>3. QED
      BY <2>1, <2>2
  <1>12. ASSUME NEW e \in ENI, detachmentOver(e) \/ otherDetaches(e) PROVE PrimaryInv'
    <2>1. e \in ENI \ {Primary} /\ e \in Attached
      BY <1>12 DEF detachmentOver, otherDetaches, ZeroIsPrimary, Attached
    <2>2. PICK s \in {"available", "detaching"} : status' = [status EXCEPT ![e] = s]
      BY <1>12 DEF detachmentOver, otherDetaches
    <2>3. device' = device /\ UNCHANGED agentVars
      BY <1>12 DEF detachmentOver, otherDetaches
    <2>4. QED
      BY <2>1, <2>2, <2>3, StatusStep, Zenon DEF agentVars, CallsSpareIt
  <1>13. ASSUME NEW e \in ENI, otherAttaches(e) PROVE PrimaryInv'
    <2>1. e \in ENI \ {Primary}
      BY <1>13 DEF otherAttaches, ZeroIsPrimary
    <2>2. ZeroIsPrimary'
      BY <1>13, <2>1, AttachStep, Zenon DEF otherAttaches
    <2>3. CallsSpareIt'
      BY <1>13 DEF otherAttaches, agentVars, CallsSpareIt
    <2>4. QED
      BY <2>2, <2>3
  <1>14. CASE UNCHANGED eniVars
    BY <1>0, <1>14 DEF eniVars, ec2Vars, agentVars, CallsSpareIt
  <1>15. QED
    BY <1>1, <1>2, <1>3, <1>4, <1>5, <1>6, <1>7, <1>8, <1>9, <1>10, <1>11, <1>12, <1>13, <1>14
    DEF ENINext, Step

\* What may go wrong stays the same and is not the invariant's business.
LEMMA StepsOfSpec == [ENINext /\ UNCHANGED world]_<<eniVars, world>> => [ENINext]_eniVars
  OBVIOUS

\* FreeENI and deleteENI are never about the instance's primary ENI, whatever EC2 answers,
\* however often ipamd starts again (setPrimaryENI) and whoever else attaches ENIs.
THEOREM PrimaryIsKept == ENISpec => []PrimaryKept
  <1>1. PrimaryInv => PrimaryKept
    BY DEF PrimaryInv, ZeroIsPrimary, PrimaryKept
  <1>2. QED
    BY <1>1, InitPrimaryInv, NextPrimaryInv, StepsOfSpec, PTL DEF ENISpec

-----------------------------------------------------------------------------
(* Types, and one ENI at each device number *)

ENITypeInv == world \in World /\ ENITypeOK

LEMMA InitENITypes == ENIInit => ENITypeInv
  <1> SUFFICES ASSUME ENIInit PROVE ENITypeInv
    OBVIOUS
  <1>1. world \in World
    BY ENIAssumption DEF ENIInit
  <1>2. MaxFailures \in Nat
    BY <1>1 DEF World, MaxFailures
  <1> QED
    BY <1>1, <1>2, ENIAssumption DEF ENIInit, ENITypeInv, ENITypeOK, Device, Attached, Calls

\* A step that leaves device alone and attaches nothing new keeps the numbers distinct.
LEMMA DistinctAfterStatus ==
  ASSUME ENITypeInv, NEW e \in ENI, NEW s \in {"none", "available", "detaching"}, device' = device,
         status' = [status EXCEPT ![e] = s],
         s \in {"none", "available"} \/ e \in Attached
  PROVE  /\ status' \in [ENI -> {"none", "available", "in-use", "detaching"}]
         /\ \A a, b \in Attached' : device'[a] = device'[b] => a = b
  <1>1. Attached' \subseteq Attached
    BY DEF ENITypeInv, ENITypeOK, Attached
  <1> QED
    BY <1>1 DEF ENITypeInv, ENITypeOK

\* So does one that attaches an ENI at a device number that is not in use.
LEMMA DistinctAfterAttach ==
  ASSUME ENITypeInv, NEW e \in ENI, NEW d \in Device \ Used,
         device' = [device EXCEPT ![e] = d], status' = [status EXCEPT ![e] = "in-use"]
  PROVE  /\ status' \in [ENI -> {"none", "available", "in-use", "detaching"}]
         /\ device' \in [ENI -> Device]
         /\ \A a, b \in Attached' : device'[a] = device'[b] => a = b
  <1>1. status \in [ENI -> {"none", "available", "in-use", "detaching"}] /\ device \in [ENI -> Device]
    BY DEF ENITypeInv, ENITypeOK
  <1>2. Attached' = Attached \cup {e}
    BY <1>1 DEF Attached
  <1>3. \A a \in Attached : device[a] # d
    BY DEF Used
  <1>4. \A a \in Attached \ {e} : device'[a] = device[a] /\ device'[a] # d
    BY <1>1, <1>3 DEF Attached
  <1>5. device'[e] = d
    BY <1>1
  <1>6. \A a, b \in Attached : device[a] = device[b] => a = b
    BY DEF ENITypeInv, ENITypeOK
  <1>7. \A a, b \in Attached' : device'[a] = device'[b] => a = b
    BY <1>2, <1>4, <1>5, <1>6
  <1> QED
    BY <1>1, <1>7

LEMMA NextENITypes ==
  ASSUME ENITypeInv, ENINext, UNCHANGED world
  PROVE  ENITypeInv'
  <1>1. MaxFailures \in Nat /\ MaxFailures' = MaxFailures
    BY DEF ENITypeInv, World, MaxFailures
  <1>2. /\ maxENIDeleteRetries \in Nat \ {0} /\ DetachLag \in Nat /\ NoENI \notin ENI
    BY ENIAssumption
  <1>3. fails \/ works => failures' \in 0 .. MaxFailures
    BY <1>1 DEF ENITypeInv, ENITypeOK, fails, works
  <1>4. ASSUME UNCHANGED <<status, device>>
        PROVE  Attached' = Attached /\ \A a, b \in Attached' : device'[a] = device'[b] => a = b
    BY <1>4 DEF ENITypeInv, ENITypeOK, Attached
  <1> DEFINE Ret == [id : ENI \cup {NoENI}, ok : BOOLEAN]
  <1>rec. \A i \in ENI \cup {NoENI}, b \in BOOLEAN : [id |-> i, ok |-> b] \in Ret
    OBVIOUS
  <1>ret. ASSUME return(TRUE) \/ return(FALSE) \/ UNCHANGED ret PROVE ret' \in Ret
    <2>1. ret \in Ret
      BY DEF ENITypeInv, ENITypeOK
    <2> HIDE DEF Ret
    <2> QED
      BY <1>rec, <1>ret, <2>1, Zenon DEF return
  <1> USE <1>1, <1>2
  <1>5. CASE setPrimaryENI \/ GetAttachedENIs \/ AllocENI
    <2>1. Attached \subseteq ENI /\ UNCHANGED <<status, device>>
      BY <1>5 DEF Attached, setPrimaryENI, GetAttachedENIs, AllocENI, ec2Vars
    <2>2. ret' \in Ret
      <3>1. ret' = [id |-> NoENI, ok |-> FALSE] \/ UNCHANGED ret
        BY <1>5 DEF setPrimaryENI, GetAttachedENIs, AllocENI
      <3> HIDE DEF Ret
      <3> QED
        BY <1>rec, <1>ret, <3>1, Zenon
    <2>3. failures' \in 0 .. MaxFailures
      BY <1>5 DEF setPrimaryENI, GetAttachedENIs, AllocENI, ENITypeInv, ENITypeOK
    <2>4. pc' \in {"idle", "create"} /\ eniID' \in ENI \cup {NoENI} /\ primaryENI' \in ENI \cup {NoENI}
      BY <1>5, <2>1 DEF setPrimaryENI, GetAttachedENIs, AllocENI, ENITypeInv, ENITypeOK
    <2>5. known' \subseteq ENI /\ UNCHANGED <<withInstance, lag, caller, freeDevice, retry>>
      BY <1>5, <2>1 DEF setPrimaryENI, GetAttachedENIs, AllocENI, ec2Vars, ENITypeInv, ENITypeOK
    <2> QED
      BY <1>4, <2>1, <2>2, <2>3, <2>4, <2>5 DEF ENITypeInv, ENITypeOK, Calls
  <1>6. CASE createENI
    <2>1. CASE fails /\ pc' = "idle" /\ UNCHANGED <<status, eniID>>
      <3>1. failures' \in 0 .. MaxFailures
        BY <1>3, <2>1
      <3> QED
        BY <1>4, <1>6, <2>1, <3>1 DEF createENI, ENITypeInv, ENITypeOK, Calls
    <2>2. ASSUME NEW e \in ENI, status' = [status EXCEPT ![e] = "available"],
                 (works /\ eniID' = e /\ pc' = "device") \/ (fails /\ pc' = "idle" /\ UNCHANGED eniID)
          PROVE  ENITypeInv'
      <3>1. /\ status' \in [ENI -> {"none", "available", "in-use", "detaching"}]
            /\ \A a, b \in Attached' : device'[a] = device'[b] => a = b
        BY <1>6, <2>2, DistinctAfterStatus, Zenon DEF createENI
      <3>2. failures' \in 0 .. MaxFailures
        BY <1>3, <2>2
      <3>3. eniID' \in ENI \cup {NoENI} /\ (pc' \in Calls \ {"create"} => eniID' \in ENI)
        BY <2>2 DEF ENITypeInv, ENITypeOK, Calls
      <3>4. pc' \in Calls \cup {"init", "idle", "panic"}
        BY <2>2 DEF Calls
      <3> QED
        BY <1>6, <3>1, <3>2, <3>3, <3>4 DEF createENI, ENITypeInv, ENITypeOK
    <2> QED
      BY <1>6, <2>1, <2>2 DEF createENI, lost
  <1>7. CASE awsGetFreeDeviceNumber
    BY <1>3, <1>4, <1>7 DEF awsGetFreeDeviceNumber, attachFailed, ec2Vars, ENITypeInv, ENITypeOK, Calls
  <1>8. CASE attachENI
    <2>1. eniID \in ENI /\ freeDevice \in Device
      BY <1>8 DEF attachENI, ENITypeInv, ENITypeOK, Calls
    <2>2. /\ status' \in [ENI -> {"none", "available", "in-use", "detaching"}]
          /\ device' \in [ENI -> Device]
          /\ \A a, b \in Attached' : device'[a] = device'[b] => a = b
      <3>1. CASE UNCHANGED <<status, device>>
        BY <1>4, <3>1 DEF ENITypeInv, ENITypeOK
      <3>2. CASE /\ freeDevice \notin Used
                 /\ status' = [status EXCEPT ![eniID] = "in-use"]
                 /\ device' = [device EXCEPT ![eniID] = freeDevice]
        BY <2>1, <3>2, DistinctAfterAttach, Zenon
      <3> QED
        BY <1>8, <3>1, <3>2 DEF attachENI
    <2>3. failures' \in 0 .. MaxFailures
      BY <1>3, <1>8 DEF attachENI, lost
    <2> QED
      BY <1>8, <2>1, <2>2, <2>3 DEF attachENI, attachFailed, ENITypeInv, ENITypeOK, Calls
  <1>9. CASE ModifyNetworkInterfaceAttribute
    <2>1. eniID \in ENI /\ UNCHANGED <<status, device, lag, primaryENI, eniID, freeDevice, retry>>
      BY <1>9 DEF ModifyNetworkInterfaceAttribute, ENITypeInv, ENITypeOK, Calls
    <2>2. failures' \in 0 .. MaxFailures
      BY <1>3, <1>9 DEF ModifyNetworkInterfaceAttribute
    <2>3. withInstance' \subseteq ENI /\ known' \subseteq ENI
      BY <1>9, <2>1 DEF ModifyNetworkInterfaceAttribute, ENITypeInv, ENITypeOK
    <2>4. ret' \in Ret
      <3>1. ret' = [id |-> eniID, ok |-> TRUE] \/ UNCHANGED ret
        BY <1>9 DEF ModifyNetworkInterfaceAttribute
      <3> HIDE DEF Ret
      <3> QED
        BY <1>rec, <1>ret, <2>1, <3>1, Zenon
    <2>5. pc' \in {"idle", "describe"} /\ caller' \in {"attachENI", "AllocENI", "FreeENI"}
      BY <1>9 DEF ModifyNetworkInterfaceAttribute, ENITypeInv, ENITypeOK
    <2> QED
      BY <1>4, <2>1, <2>2, <2>3, <2>4, <2>5 DEF ENITypeInv, ENITypeOK, Calls
  <1>10. CASE DescribeENI
    <2>1. eniID \in ENI /\ UNCHANGED <<status, device, withInstance, lag, primaryENI, known, caller, eniID, freeDevice>>
      BY <1>10 DEF DescribeENI, ec2Vars, ENITypeInv, ENITypeOK, Calls
    <2>2. failures' \in 0 .. MaxFailures
      BY <1>3, <1>10, Zenon DEF DescribeENI
    <2>3. pc' \in {"idle", "detach", "panic"} /\ retry' = 0
      BY <1>10 DEF DescribeENI, return
    <2>4. ret' \in Ret
      BY <1>ret, <1>10, Zenon DEF DescribeENI
    <2> QED
      BY <1>4, <2>1, <2>2, <2>3, <2>4 DEF ENITypeInv, ENITypeOK, Calls
  <1>11. CASE DetachNetworkInterface
    <2>1. eniID \in ENI
      BY <1>11 DEF DetachNetworkInterface, ENITypeInv, ENITypeOK, Calls
    <2>2. /\ status' \in [ENI -> {"none", "available", "in-use", "detaching"}]
          /\ \A a, b \in Attached' : device'[a] = device'[b] => a = b
      <3>1. CASE UNCHANGED status
        BY <1>4, <1>11, <3>1 DEF DetachNetworkInterface, ENITypeInv, ENITypeOK
      <3>2. CASE status[eniID] = "in-use" /\ status' = [status EXCEPT ![eniID] = "detaching"]
        <4>1. eniID \in Attached
          BY <2>1, <3>2 DEF Attached
        <4> QED
          BY <1>11, <2>1, <3>2, <4>1, DistinctAfterStatus, Zenon DEF DetachNetworkInterface
      <3> QED
        BY <1>11, <3>1, <3>2, Zenon DEF DetachNetworkInterface
    <2>3. failures' \in 0 .. MaxFailures
      BY <1>3, <1>11, Zenon DEF DetachNetworkInterface, lost
    <2>4. retry' \in {1, retry} \/ (retry # maxENIDeleteRetries /\ retry' = retry + 1)
      BY <1>11 DEF DetachNetworkInterface, return, fails, works, lost
    <2>5. lag' \in {0, lag}
      BY <1>11 DEF DetachNetworkInterface, return, fails, works, lost
    <2>6. retry' \in 0 .. maxENIDeleteRetries /\ lag' \in 0 .. DetachLag
      BY <2>4, <2>5 DEF ENITypeInv, ENITypeOK
    <2>7. pc' \in {"idle", "detach", "delete"}
      BY <1>11 DEF DetachNetworkInterface, return
    <2>8. ret' \in Ret
      BY <1>ret, <1>11, Zenon DEF DetachNetworkInterface
    <2>9. UNCHANGED <<device, withInstance, primaryENI, known, caller, eniID, freeDevice>>
      BY <1>11 DEF DetachNetworkInterface
    <2> QED
      BY <2>1, <2>2, <2>3, <2>6, <2>7, <2>8, <2>9 DEF ENITypeInv, ENITypeOK, Calls
  <1>12. CASE deleteENI
    <2>1. eniID \in ENI
      BY <1>12 DEF deleteENI, ENITypeInv, ENITypeOK, Calls
    <2>2. /\ status' \in [ENI -> {"none", "available", "in-use", "detaching"}]
          /\ \A a, b \in Attached' : device'[a] = device'[b] => a = b
      BY <1>4, <1>12, <2>1, DistinctAfterStatus, Zenon DEF deleteENI, ENITypeInv, ENITypeOK
    <2>3. failures' \in 0 .. MaxFailures
      BY <1>3, <1>12, Zenon DEF deleteENI, refusesDelete, lost
    <2>4. retry' \in {retry} \/ (retry # maxENIDeleteRetries /\ retry' = retry + 1)
      BY <1>12 DEF deleteENI, refusesDelete, return, fails, works, lost
    <2>5. lag' = lag \/ (lag < DetachLag /\ lag' = lag + 1)
      BY <1>12 DEF deleteENI, refusesDelete, return, fails, works, lost
    <2>6. retry' \in 0 .. maxENIDeleteRetries /\ lag' \in 0 .. DetachLag
      BY <2>4, <2>5 DEF ENITypeInv, ENITypeOK
    <2>7. pc' \in {"idle", "delete"}
      BY <1>12 DEF deleteENI, return
    <2>8. ret' \in Ret
      BY <1>ret, <1>12, Zenon DEF deleteENI
    <2>9. UNCHANGED <<device, withInstance, primaryENI, known, caller, eniID, freeDevice>>
      BY <1>12, Zenon DEF deleteENI
    <2> QED
      BY <2>1, <2>2, <2>3, <2>6, <2>7, <2>8, <2>9, Zenon DEF ENITypeInv, ENITypeOK, Calls
  <1>13. CASE restart
    BY <1>4, <1>13, Zenon DEF restart, ec2Vars, ENITypeInv, ENITypeOK, Calls
  <1>14. ASSUME NEW e \in ENI, FreeENI(e) PROVE ENITypeInv'
    BY <1>4, <1>14 DEF FreeENI, ec2Vars, ENITypeInv, ENITypeOK, Calls
  <1>15. ASSUME NEW e \in ENI, detachmentOver(e) \/ otherDetaches(e) PROVE ENITypeInv'
    <2>1. e \in Attached
      BY <1>15 DEF detachmentOver, otherDetaches, Attached
    <2>2. PICK s \in {"available", "detaching"} : status' = [status EXCEPT ![e] = s]
      BY <1>15 DEF detachmentOver, otherDetaches
    <2>3. /\ status' \in [ENI -> {"none", "available", "in-use", "detaching"}]
          /\ \A a, b \in Attached' : device'[a] = device'[b] => a = b
      BY <1>15, <2>1, <2>2, DistinctAfterStatus, Zenon DEF detachmentOver, otherDetaches
    <2> QED
      BY <1>15, <2>3 DEF detachmentOver, otherDetaches, agentVars, ENITypeInv, ENITypeOK
  <1>16. ASSUME NEW e \in ENI, otherAttaches(e) PROVE ENITypeInv'
    <2>1. /\ status' \in [ENI -> {"none", "available", "in-use", "detaching"}]
          /\ device' \in [ENI -> Device]
          /\ \A a, b \in Attached' : device'[a] = device'[b] => a = b
      BY <1>16, DistinctAfterAttach, Zenon DEF otherAttaches
    <2> QED
      BY <1>16, <2>1 DEF otherAttaches, agentVars, ENITypeInv, ENITypeOK
  <1> QED
    BY <1>5, <1>6, <1>7, <1>8, <1>9, <1>10, <1>11, <1>12, <1>13, <1>14, <1>15, <1>16 DEF ENINext, Step

LEMMA ENITypesInvariant == ENISpec => []ENITypeInv
  <1>1. ENITypeInv /\ UNCHANGED <<eniVars, world>> => ENITypeInv'
    BY DEF ENITypeInv, ENITypeOK, eniVars, ec2Vars, agentVars, MaxFailures, Attached
  <1>2. ENITypeInv /\ [ENINext /\ UNCHANGED world]_<<eniVars, world>> => ENITypeInv'
    BY <1>1, NextENITypes
  <1> QED
    BY InitENITypes, <1>2, PTL DEF ENISpec

\* No two ENIs are at one device number and each is below the instance type's limit:
\* awsGetFreeDeviceNumber asks EC2, and whoever attaches in between makes EC2 refuse.
THEOREM DevicesDistinct == ENISpec => []ENITypeOK
  BY ENITypesInvariant, PTL DEF ENITypeInv

-----------------------------------------------------------------------------
(* Clean-ups that are complete *)

\* What is said of an instance where others at most attach ENIs and deleteENI does
\* not give up.
Tidy == world.faults \subseteq {"attach"} /\ TriesSuffice

\* An ENI that is not in use is the one of the call in progress.
CallOwnsLoose ==
  \A e \in ENI : status[e] \in {"available", "detaching"} => pc \in {"device", "attach", "delete"} /\ e = eniID

\* What each call finds: its ENI's state, and that attempts to delete are left.
CallFinds ==
  /\ pc # "panic"
  /\ pc \in {"device", "attach"} => status[eniID] = "available"
  /\ pc \in {"modify", "describe", "detach"} => status[eniID] = "in-use"
  /\ pc = "delete" => status[eniID] \in {"available", "detaching"} /\ retry - 1 <= failures + lag

\* The data store has only ENIs in use, and not that of the call.
KnownInUse ==
  /\ \A e \in known : status[e] = "in-use"
  /\ pc \in Calls \ {"create"} => eniID \notin known

TidyInv == Tidy => CallOwnsLoose /\ CallFinds /\ KnownInUse

LEMMA InitTidyInv == ENIInit => TidyInv
  BY ENIAssumption DEF ENIInit, TidyInv, CallOwnsLoose, CallFinds, KnownInUse, Calls

LEMMA NextTidyInv ==
  ASSUME ENITypeInv, TidyInv, ENINext, UNCHANGED world
  PROVE  TidyInv'
  <1>1. SUFFICES ASSUME Tidy PROVE (CallOwnsLoose /\ CallFinds /\ KnownInUse)'
    BY DEF TidyInv, Tidy, TriesSuffice, MaxFailures
  <1>2. CallOwnsLoose /\ CallFinds /\ KnownInUse
    BY <1>1 DEF TidyInv
  <1>3. ~AnswersLost /\ ~AgentDies /\ ~OthersDetach
    BY <1>1 DEF Tidy, AnswersLost, AgentDies, OthersDetach
  <1>4. /\ MaxFailures \in Nat /\ maxENIDeleteRetries \in Nat /\ DetachLag \in Nat
        /\ MaxFailures + DetachLag < maxENIDeleteRetries
    BY <1>1, ENIAssumption DEF ENITypeInv, World, MaxFailures, Tidy, TriesSuffice
  <1>5. /\ status \in [ENI -> {"none", "available", "in-use", "detaching"}]
        /\ known \subseteq ENI /\ lag \in 0 .. DetachLag /\ failures \in 0 .. MaxFailures
        /\ retry \in 0 .. maxENIDeleteRetries
        /\ pc \in Calls \ {"create"} => eniID \in ENI
    BY Zenon DEF ENITypeInv, ENITypeOK
  <1> USE <1>2, <1>5 DEF CallOwnsLoose, CallFinds, KnownInUse, Calls
  <1>6. CASE setPrimaryENI \/ AllocENI
    BY <1>6 DEF setPrimaryENI, AllocENI, ec2Vars
  <1>7. CASE GetAttachedENIs
    BY <1>7 DEF GetAttachedENIs, ec2Vars, Attached
  <1>8. CASE createENI
    BY <1>3, <1>8 DEF createENI, lost
  <1>9. CASE awsGetFreeDeviceNumber
    BY <1>4, <1>9 DEF awsGetFreeDeviceNumber, attachFailed, ec2Vars, fails, works
  <1>10. CASE attachENI
    BY <1>3, <1>4, <1>10 DEF attachENI, attachFailed, lost, fails, works
  <1>11. CASE ModifyNetworkInterfaceAttribute
    BY <1>11, Zenon DEF ModifyNetworkInterfaceAttribute
  <1>12. CASE DescribeENI
    BY <1>12, Zenon DEF DescribeENI, return, ec2Vars
  <1>13. CASE DetachNetworkInterface
    BY <1>3, <1>4, <1>13 DEF DetachNetworkInterface, return, lost, fails, works
  <1>14. CASE deleteENI
    BY <1>3, <1>4, <1>14 DEF deleteENI, refusesDelete, return, lost, fails, works
  <1>15. CASE restart
    BY <1>3, <1>15, Zenon DEF restart
  <1>16. ASSUME NEW e \in ENI, FreeENI(e) PROVE (CallOwnsLoose /\ CallFinds /\ KnownInUse)'
    BY <1>16, Zenon DEF FreeENI, ec2Vars
  <1>17. ASSUME NEW e \in ENI, detachmentOver(e) PROVE (CallOwnsLoose /\ CallFinds /\ KnownInUse)'
    BY <1>17, Zenon DEF detachmentOver, agentVars
  <1>18. ASSUME NEW e \in ENI, otherAttaches(e) PROVE (CallOwnsLoose /\ CallFinds /\ KnownInUse)'
    BY <1>18 DEF otherAttaches, agentVars
  <1>19. ASSUME NEW e \in ENI, otherDetaches(e) PROVE (CallOwnsLoose /\ CallFinds /\ KnownInUse)'
    BY <1>3, <1>19 DEF otherDetaches
  <1> QED
    BY <1>6, <1>7, <1>8, <1>9, <1>10, <1>11, <1>12, <1>13, <1>14, <1>15, <1>16, <1>17, <1>18, <1>19, Zenon
    DEF ENINext, Step

LEMMA TidyInvariant == ENISpec => []TidyInv
  <1>1. TidyInv /\ UNCHANGED <<eniVars, world>> => TidyInv'
    BY DEF TidyInv, Tidy, TriesSuffice, MaxFailures, CallOwnsLoose, CallFinds, KnownInUse, eniVars, ec2Vars,
       agentVars
  <1>2. ENITypeInv /\ TidyInv /\ [ENINext /\ UNCHANGED world]_<<eniVars, world>> => TidyInv'
    BY <1>1, NextTidyInv
  <1> QED
    BY InitTidyInv, <1>2, ENITypesInvariant, PTL DEF ENISpec

\* AllocENI and FreeENI leave no ENI behind that is paid for and not attached, as long
\* as deleteENI tries more often than EC2 refuses (maxENIDeleteRetries).
THEOREM NoOrphanLeft == ENISpec => []NoOrphan
  <1>1. ENITypeInv /\ TidyInv => NoOrphan
    BY Zenon DEF TidyInv, Tidy, CallOwnsLoose, NoOrphan, ENITypeInv, ENITypeOK
  <1> QED
    BY <1>1, ENITypesInvariant, TidyInvariant, PTL

\* What is said of an instance where a single call fails at most.
Calm == world.faults = {} /\ MaxFailures <= 1 /\ TriesSuffice

\* An ENI in use goes with the instance, or AllocENI has yet to say so, or it failed to
\* and no other call can fail until the ENI is gone.
CalmInv ==
  Calm =>
    /\ \A e \in ENI :
         status[e] = "in-use" =>
           \/ e \in withInstance
           \/ e = eniID /\ pc = "modify"
           \/ e = eniID /\ pc \in {"describe", "detach"} /\ caller = "AllocENI" /\ failures = MaxFailures
    /\ known \subseteq withInstance

LEMMA NextCalmInv ==
  ASSUME ENITypeInv, TidyInv, CalmInv, ENINext, UNCHANGED world
  PROVE  CalmInv'
  <1>1. SUFFICES ASSUME Calm PROVE CalmInv'
    BY DEF CalmInv, Calm, TriesSuffice, MaxFailures
  <1>2. Tidy
    BY <1>1 DEF Calm, Tidy
  <1>3. ~AnswersLost /\ ~AgentDies /\ ~OthersDetach /\ ~OthersAttach
    BY <1>1 DEF Calm, AnswersLost, AgentDies, OthersDetach, OthersAttach
  <1>4. MaxFailures \in 0 .. 1 /\ failures \in 0 .. MaxFailures /\ MaxFailures' = MaxFailures
    BY <1>1 DEF ENITypeInv, ENITypeOK, World, MaxFailures, Calm
  <1>5. /\ status \in [ENI -> {"none", "available", "in-use", "detaching"}]
        /\ known \subseteq ENI
        /\ pc \in Calls \ {"create"} => eniID \in ENI
    BY DEF ENITypeInv, ENITypeOK
  <1>6. CallOwnsLoose /\ CallFinds /\ KnownInUse
    BY <1>2, Zenon DEF TidyInv
  <1> USE <1>1, <1>5, <1>6 DEF CalmInv, CallOwnsLoose, CallFinds, KnownInUse, Calls
  <1>7. CASE setPrimaryENI \/ AllocENI
    BY <1>4, <1>7 DEF setPrimaryENI, AllocENI, ec2Vars
  <1>8. CASE GetAttachedENIs
    BY <1>4, <1>8 DEF GetAttachedENIs, ec2Vars, Attached
  <1>9. CASE createENI
    BY <1>3, <1>9, Zenon DEF createENI, lost
  <1>10. CASE awsGetFreeDeviceNumber
    BY <1>10, Zenon DEF awsGetFreeDeviceNumber, attachFailed, ec2Vars
  <1>11. CASE attachENI
    BY <1>3, <1>11, Zenon DEF attachENI, attachFailed, lost
  <1>12. CASE ModifyNetworkInterfaceAttribute
    BY <1>4, <1>12 DEF ModifyNetworkInterfaceAttribute, fails, works
  <1>13. CASE DescribeENI
    BY <1>4, <1>13 DEF DescribeENI, return, ec2Vars, fails, works
  <1>14. CASE DetachNetworkInterface
    BY <1>3, <1>4, <1>14 DEF DetachNetworkInterface, return, lost, fails, works
  <1>15. CASE deleteENI
    BY <1>3, <1>15 DEF deleteENI, return, lost
  <1>16. CASE restart
    BY <1>3, <1>16, Zenon DEF restart
  <1>17. ASSUME NEW e \in ENI, FreeENI(e) PROVE CalmInv'
    BY <1>17, Zenon DEF FreeENI, ec2Vars
  <1>18. ASSUME NEW e \in ENI, detachmentOver(e) PROVE CalmInv'
    BY <1>18, Zenon DEF detachmentOver, agentVars
  <1>19. ASSUME NEW e \in ENI, otherAttaches(e) \/ otherDetaches(e) PROVE CalmInv'
    BY <1>3, <1>19 DEF otherAttaches, otherDetaches
  <1> QED
    BY <1>7, <1>8, <1>9, <1>10, <1>11, <1>12, <1>13, <1>14, <1>15, <1>16, <1>17, <1>18, <1>19, Zenon
    DEF ENINext, Step

\* Every ENI the agent works with is deleted with the instance: when setting the
\* attribute fails, AllocENI frees the ENI before anything can list it.
THEOREM ENIsDieWithInstance == ENISpec => []DiesWithInstance
  <1>1. ENIInit => CalmInv
    BY Zenon DEF ENIInit, CalmInv
  <1>2. CalmInv /\ UNCHANGED <<eniVars, world>> => CalmInv'
    BY DEF CalmInv, Calm, TriesSuffice, MaxFailures, eniVars, ec2Vars, agentVars
  <1>3. ENITypeInv /\ TidyInv /\ CalmInv /\ [ENINext /\ UNCHANGED world]_<<eniVars, world>> => CalmInv'
    BY <1>2, NextCalmInv
  <1>4. CalmInv => DiesWithInstance
    BY DEF CalmInv, Calm, DiesWithInstance
  <1> QED
    BY <1>1, <1>3, <1>4, ENITypesInvariant, TidyInvariant, PTL DEF ENISpec

-----------------------------------------------------------------------------
(* What the comments of awsutils.go say, where it holds *)

\* FreeENI dereferences no missing attachment, as long as deleteENI tries more often than
\* EC2 refuses and nobody else detaches ENIs: it is called for ENIs in use only.
THEOREM FreeENINeverPanics == ENISpec => [](Tidy => NeverPanics)
  <1>1. TidyInv => (Tidy => NeverPanics)
    BY Zenon DEF TidyInv, CallFinds, NeverPanics
  <1> QED
    BY <1>1, TidyInvariant, PTL

\* What is said of an instance where no call fails; others may attach ENIs.
Quiet == world.faults \subseteq {"attach"} /\ MaxFailures = 0

\* There the ENI whose attribute is changed is in use, so that AllocENI frees none; and the
\* ENI that it has returned is not freed while its result stands.
QuietInv ==
  Quiet =>
    /\ pc = "modify" => status[eniID] = "in-use"
    /\ caller # "AllocENI"
    /\ ret.ok => pc = "idle" /\ ret.id \in ENI /\ status[ret.id] = "in-use"

LEMMA NextQuietInv ==
  ASSUME ENITypeInv, QuietInv, ENINext, UNCHANGED world
  PROVE  QuietInv'
  <1>1. SUFFICES ASSUME Quiet PROVE QuietInv'
    BY DEF QuietInv, Quiet, MaxFailures
  <1>2. ~AnswersLost /\ ~AgentDies /\ ~OthersDetach
    BY <1>1 DEF Quiet, AnswersLost, AgentDies, OthersDetach
  <1>3. ~fails
    BY <1>1 DEF Quiet, fails, ENITypeInv, ENITypeOK
  <1>4. /\ status \in [ENI -> {"none", "available", "in-use", "detaching"}]
        /\ pc \in Calls \ {"create"} => eniID \in ENI
        /\ ret \in [id : ENI \cup {NoENI}, ok : BOOLEAN]
    BY DEF ENITypeInv, ENITypeOK
  <1>5. /\ pc = "modify" => status[eniID] = "in-use"
        /\ caller # "AllocENI"
        /\ ret.ok => pc = "idle" /\ ret.id \in ENI /\ status[ret.id] = "in-use"
    BY <1>1 DEF QuietInv
  <1> DEFINE Holds == /\ pc = "modify" => status[eniID] = "in-use"
                      /\ caller # "AllocENI"
                      /\ ret.ok => pc = "idle" /\ ret.id \in ENI /\ status[ret.id] = "in-use"
  <1>6. SUFFICES Holds'
    BY DEF QuietInv
  <1> USE <1>4, <1>5 DEF Calls
  <1>7. CASE setPrimaryENI \/ GetAttachedENIs
    BY <1>7 DEF setPrimaryENI, GetAttachedENIs, ec2Vars
  <1>8. CASE AllocENI
    BY <1>8 DEF AllocENI, ec2Vars
  <1>9. CASE createENI
    BY <1>9 DEF createENI
  <1>10. CASE awsGetFreeDeviceNumber
    BY <1>10 DEF awsGetFreeDeviceNumber, attachFailed, ec2Vars
  <1>11. CASE attachENI
    BY <1>2, <1>11 DEF attachENI, attachFailed, lost
  <1>12. CASE ModifyNetworkInterfaceAttribute
    BY <1>3, <1>12 DEF ModifyNetworkInterfaceAttribute
  <1>13. CASE DescribeENI
    BY <1>13 DEF DescribeENI, return, ec2Vars
  <1>14. CASE DetachNetworkInterface
    BY <1>14 DEF DetachNetworkInterface, return
  <1>15. CASE deleteENI
    BY <1>15 DEF deleteENI, return
  <1>16. CASE restart
    BY <1>16 DEF restart, ec2Vars
  <1>17. ASSUME NEW e \in ENI, FreeENI(e) PROVE Holds'
    BY <1>17 DEF FreeENI, ec2Vars
  <1>18. ASSUME NEW e \in ENI, detachmentOver(e) \/ otherAttaches(e) PROVE Holds'
    BY <1>18 DEF detachmentOver, otherAttaches, agentVars
  <1>19. ASSUME NEW e \in ENI, otherDetaches(e) PROVE Holds'
    BY <1>2, <1>19 DEF otherDetaches
  <1> QED
    BY <1>7, <1>8, <1>9, <1>10, <1>11, <1>12, <1>13, <1>14, <1>15, <1>16, <1>17, <1>18, <1>19, Zenon
    DEF ENINext, Step

\* Without failed calls AllocENI, when it returns no error, returns an ENI that is attached:
\* the empty ID comes only from the clean-up after a failed one.
THEOREM AllocENIReturnsItsENI == ENISpec => [](Quiet => AllocENIReturnsENI)
  <1>1. ENIInit => QuietInv
    BY DEF ENIInit, QuietInv
  <1>2. QuietInv /\ UNCHANGED <<eniVars, world>> => QuietInv'
    BY Zenon DEF QuietInv, Quiet, MaxFailures, eniVars, ec2Vars, agentVars
  <1>3. ENITypeInv /\ QuietInv /\ [ENINext /\ UNCHANGED world]_<<eniVars, world>> => QuietInv'
    BY <1>2, NextQuietInv
  <1>4. QuietInv => (Quiet => AllocENIReturnsENI)
    BY DEF QuietInv, AllocENIReturnsENI, Attached
  <1> QED
    BY <1>1, <1>3, <1>4, ENITypesInvariant, PTL DEF ENISpec

-----------------------------------------------------------------------------
(* The calls of AllocENI and FreeENI come to an end *)

\* How many more EC2 calls the one in progress may make.
callsLeft ==
  CASE pc = "create"   -> 7 + 2 * maxENIDeleteRetries
    [] pc = "device"   -> 6 + 2 * maxENIDeleteRetries
    [] pc = "attach"   -> 5 + 2 * maxENIDeleteRetries
    [] pc = "modify"   -> 4 + 2 * maxENIDeleteRetries
    [] pc = "describe" -> 3 + 2 * maxENIDeleteRetries
    [] pc = "detach"   -> 2 + 2 * maxENIDeleteRetries - retry
    [] pc = "delete"   -> 1 + maxENIDeleteRetries - retry
    [] OTHER           -> 0

\* Every EC2 call of AllocENI and FreeENI, answered, refused or lost, leaves fewer to
\* make, and nothing that EC2, others or a restart do in between adds to them.
CallsRunOut ==
  [][(pc \in Calls) => callsLeft' <= callsLeft /\ (Step => callsLeft' < callsLeft)]_eniVars

LEMMA CallsLeftIs ==
  /\ pc = "create" => callsLeft = 7 + 2 * maxENIDeleteRetries
  /\ pc = "device" => callsLeft = 6 + 2 * maxENIDeleteRetries
  /\ pc = "attach" => callsLeft = 5 + 2 * maxENIDeleteRetries
  /\ pc = "modify" => callsLeft = 4 + 2 * maxENIDeleteRetries
  /\ pc = "describe" => callsLeft = 3 + 2 * maxENIDeleteRetries
  /\ pc = "detach" => callsLeft = 2 + 2 * maxENIDeleteRetries - retry
  /\ pc = "delete" => callsLeft = 1 + maxENIDeleteRetries - retry
  /\ pc \in {"init", "idle", "panic"} => callsLeft = 0
  BY DEF callsLeft

LEMMA CallsLeftIsPrimed ==
  /\ pc' = "create" => callsLeft' = 7 + 2 * maxENIDeleteRetries
  /\ pc' = "device" => callsLeft' = 6 + 2 * maxENIDeleteRetries
  /\ pc' = "attach" => callsLeft' = 5 + 2 * maxENIDeleteRetries
  /\ pc' = "modify" => callsLeft' = 4 + 2 * maxENIDeleteRetries
  /\ pc' = "describe" => callsLeft' = 3 + 2 * maxENIDeleteRetries
  /\ pc' = "detach" => callsLeft' = 2 + 2 * maxENIDeleteRetries - retry'
  /\ pc' = "delete" => callsLeft' = 1 + maxENIDeleteRetries - retry'
  /\ pc' \in {"init", "idle", "panic"} => callsLeft' = 0
  BY DEF callsLeft

\* There is an end to what a call may do.
LEMMA CallsLeftBound ==
  ASSUME ENITypeInv
  PROVE  callsLeft \in 0 .. 7 + 2 * maxENIDeleteRetries
  <1>1. /\ pc \in Calls \cup {"init", "idle", "panic"} /\ retry \in 0 .. maxENIDeleteRetries
        /\ maxENIDeleteRetries \in Nat
    BY ENIAssumption DEF ENITypeInv, ENITypeOK
  <1> QED
    BY <1>1, CallsLeftIs DEF Calls

LEMMA StepUsesCall ==
  ASSUME ENITypeInv, Step
  PROVE  callsLeft' < callsLeft
  <1>1. retry \in 0 .. maxENIDeleteRetries /\ maxENIDeleteRetries \in Nat \ {0}
    BY ENIAssumption DEF ENITypeInv, ENITypeOK
  <1> USE <1>1, CallsLeftIs, CallsLeftIsPrimed
  <1>2. CASE createENI
    <2>1. pc = "create" /\ pc' \in {"device", "idle"}
      BY <1>2 DEF createENI
    <2> QED
      BY <2>1
  <1>3. CASE awsGetFreeDeviceNumber
    <2>1. pc = "device" /\ (pc' = "attach" \/ (pc' = "delete" /\ retry' = 1))
      BY <1>3 DEF awsGetFreeDeviceNumber, attachFailed
    <2> QED
      BY <2>1
  <1>4. CASE attachENI
    <2>1. pc = "attach" /\ (pc' = "modify" \/ (pc' = "delete" /\ retry' = 1))
      BY <1>4 DEF attachENI, attachFailed
    <2> QED
      BY <2>1
  <1>5. CASE ModifyNetworkInterfaceAttribute
    <2>1. pc = "modify" /\ pc' \in {"idle", "describe"}
      BY <1>5 DEF ModifyNetworkInterfaceAttribute
    <2> QED
      BY <2>1
  <1>6. CASE DescribeENI
    <2>1. pc = "describe" /\ retry' = 0 /\ pc' \in {"detach", "panic", "idle"}
      BY <1>6, Zenon DEF DescribeENI, return
    <2> QED
      BY <2>1
  <1>7. CASE DetachNetworkInterface
    <2>1. /\ pc = "detach"
          /\ \/ pc' = "delete" /\ retry' = 1
             \/ pc' = "idle"
             \/ pc' = pc /\ retry # maxENIDeleteRetries /\ retry' = retry + 1
      BY <1>7 DEF DetachNetworkInterface, return
    <2> QED
      BY <2>1
  <1>8. CASE deleteENI
    <2>1. /\ pc = "delete"
          /\ \/ pc' = "idle"
             \/ pc' = pc /\ retry # maxENIDeleteRetries /\ retry' = retry + 1
      BY <1>8 DEF deleteENI, return
    <2> QED
      BY <2>1
  <1> QED
    BY <1>2, <1>3, <1>4, <1>5, <1>6, <1>7, <1>8 DEF Step

\* So AllocENI and FreeENI make at most 7 + 2 * maxENIDeleteRetries calls and come to an end,
\* whichever of them fail: the part of CallsReturn that is not fairness.
THEOREM ENICallsBounded ==
  ENISpec => [](callsLeft \in 0 .. 7 + 2 * maxENIDeleteRetries) /\ CallsRunOut
  <1>1. ASSUME ENITypeInv, [ENINext /\ UNCHANGED world]_<<eniVars, world>>, pc \in Calls
        PROVE  callsLeft' <= callsLeft /\ (Step => callsLeft' < callsLeft)
    <2>0. callsLeft \in Int /\ callsLeft >= 0
      BY <1>1, CallsLeftBound, ENIAssumption
    <2>1. CASE Step
      <3>1. callsLeft' < callsLeft
        BY <1>1, <2>1, StepUsesCall, Zenon
      <3>2. callsLeft' \in Int
        <4>1. ENITypeInv'
          BY <1>1, <2>1, NextENITypes, Zenon DEF ENINext
        <4>2. /\ pc' \in Calls \cup {"init", "idle", "panic"} /\ retry' \in 0 .. maxENIDeleteRetries
              /\ maxENIDeleteRetries \in Nat
          BY <4>1, ENIAssumption DEF ENITypeInv, ENITypeOK
        <4> QED
          BY <4>2, CallsLeftIsPrimed DEF Calls
      <3> QED
        BY <2>0, <3>1, <3>2
    <2>2. CASE UNCHANGED <<pc, retry>> /\ ~Step
      <3>1. callsLeft' = callsLeft
        BY <2>2, Zenon DEF callsLeft
      <3> QED
        BY <2>0, <2>2, <3>1
    <2>3. CASE restart /\ ~Step
      BY <2>0, <2>3, CallsLeftIsPrimed, Zenon DEF restart
    <2>4. ~(setPrimaryENI \/ GetAttachedENIs \/ AllocENI \/ \E e \in ENI : FreeENI(e))
      BY <1>1 DEF setPrimaryENI, GetAttachedENIs, AllocENI, FreeENI, Calls
    <2>5. CASE Step \/ restart \/ UNCHANGED <<pc, retry>>
      BY <2>1, <2>2, <2>3, <2>5, Zenon
    <2> QED
      BY <1>1, <2>4, <2>5, Zenon DEF ENINext, detachmentOver, otherAttaches, otherDetaches, eniVars, agentVars
  <1>2. ENITypeInv /\ [ENINext /\ UNCHANGED world]_<<eniVars, world>>
          => [(pc \in Calls) => callsLeft' <= callsLeft /\ (Step => callsLeft' < callsLeft)]_eniVars
    BY <1>1, Zenon
  <1> QED
    BY <1>2, CallsLeftBound, ENITypesInvariant, PTL DEF ENISpec, CallsRunOut

=============================================================================
