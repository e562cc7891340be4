---------------------------- MODULE ENILifecycle ----------------------------
(***************************************************************************)
(* pkg/awsutils: how an ENI comes to the instance and goes, EC2 call by    *)
(* EC2 call.  AllocENI creates an ENI, attaches it at the first free       *)
(* device number and has it deleted with the instance; FreeENI detaches    *)
(* and deletes it.  EC2 detaches in the background.  Any call may fail,    *)
(* its answer may be lost, the agent may die between two calls, and        *)
(* somebody else may attach or detach ENIs.  One goroutine of ipamd makes  *)
(* all of these calls.                                                     *)
(*                                                                         *)
(* Tags and descriptions of ENIs are left out: tagENI's failure is only    *)
(* logged and nothing here reads a tag.                                    *)
(***************************************************************************)
EXTENDS Integers, FiniteSets

CONSTANTS
  ENI, NoENI,
  Primary,              \* attached at device 0 when the instance starts
  maxENIs,              \* device numbers are below it
  InstanceENILimit,     \* EC2's limit
  maxENIDeleteRetries,
  DetachLag,            \* bound: deletions that EC2 refuses while it still detaches
  Worlds                \* what may go wrong on an instance

World == [failures : Nat, faults : SUBSET {"answers", "agent", "attach", "detach"}]

ASSUME ENIAssumption ==
  /\ Primary \in ENI /\ NoENI \notin ENI
  /\ maxENIs \in Nat \ {0} /\ InstanceENILimit \in Nat \ {0}
  /\ maxENIDeleteRetries \in Nat \ {0}
  /\ DetachLag \in Nat /\ Worlds \subseteq World

VARIABLES
  world,        \* what may go wrong on this one; it does not change
  status,       \* EC2: [ENI -> "none", "available", "in-use" or "detaching"]
  device,       \* EC2: [ENI -> its device number], of ENIs that have an attachment
  withInstance, \* EC2: ENIs that are deleted with the instance
  lag,          \* deletions refused since the last detachment began
  primaryENI,   \* the agent: cache.primaryENI
  known,        \* the agent: ENIs of the data store
  pc,           \* next EC2 call
  caller,       \* what deletes: "AllocENI" after attachENI or Modify failed, or "FreeENI"
  eniID, freeDevice, retry,
  ret,          \* the last AllocENI's ENI ID and whether its error was nil
  failures

ec2Vars   == <<status, device, withInstance, lag>>
agentVars == <<primaryENI, known, pc, caller, eniID, freeDevice, retry, ret>>
eniVars   == <<ec2Vars, agentVars, failures>>

\* Bound: EC2 calls that fail during one AllocENI or FreeENI.  May a failed call
\* have been carried out?  May ipamd be restarted at any time?  May somebody else
\* attach an ENI to the instance, or detach one?
MaxFailures  == world.failures
AnswersLost  == "answers" \in world.faults
AgentDies    == "agent" \in world.faults
OthersAttach == "attach" \in world.faults
OthersDetach == "detach" \in world.faults

Device   == 0 .. maxENIs - 1
Attached == {e \in ENI : status[e] \in {"in-use", "detaching"}}
Used     == {device[e] : e \in Attached}
Calls    == {"create", "device", "attach", "modify", "describe", "detach", "delete"}

ENITypeOK ==
  /\ status \in [ENI -> {"none", "available", "in-use", "detaching"}]
  /\ device \in [ENI -> Device]
  /\ \A a, b \in Attached : device[a] = device[b] => a = b
  /\ withInstance \subseteq ENI
  /\ lag \in 0 .. DetachLag
  /\ primaryENI \in ENI \cup {NoENI} /\ known \subseteq ENI
  /\ pc \in Calls \cup {"init", "idle", "panic"}
  /\ caller \in {"attachENI", "AllocENI", "FreeENI"}
  /\ eniID \in ENI \cup {NoENI}
  /\ pc \in Calls \ {"create"} => eniID \in ENI
  /\ freeDevice \in Device
  /\ retry \in 0 .. maxENIDeleteRetries
  /\ ret \in [id : ENI \cup {NoENI}, ok : BOOLEAN]
  /\ failures \in 0 .. MaxFailures

ENIInit ==
  /\ world \in Worlds
  /\ status = [e \in ENI |-> IF e = Primary THEN "in-use" ELSE "none"]
  /\ device = [e \in ENI |-> 0]
  /\ withInstance = {Primary}
  /\ lag = 0
  /\ primaryENI = NoENI /\ known = {}
  /\ pc = "init" /\ caller = "FreeENI"
  /\ eniID = NoENI /\ freeDevice = 0 /\ retry = 0
  /\ ret = [id |-> NoENI, ok |-> FALSE]
  /\ failures = 0

\* A call that fails; it may have been carried out if its answer is lost.
fails == failures < MaxFailures /\ failures' = failures + 1
works == UNCHANGED failures
lost  == AnswersLost /\ fails

-----------------------------------------------------------------------------
(* New and GetAttachedENIs, from the instance metadata *)

\* A slip: the first interface in the list is taken for the primary one.
setPrimaryENI_First ==
  /\ pc = "init"
  /\ \E e \in Attached : primaryENI' = e
  /\ pc' = "idle"
  /\ UNCHANGED <<ec2Vars, known, caller, eniID, freeDevice, retry, ret, failures>>

\* The instance metadata gives as the instance's own MAC address that of the ENI it was
\* launched with, at device 0 of the instance.
hasInstanceMAC(e) == device[e] = 0

\* The primary ENI is the one with the instance's own MAC address; any read that fails
\* ends the process, and it starts again.
setPrimaryENI ==
  /\ pc = "init"
  /\ \E e \in Attached : hasInstanceMAC(e) /\ primaryENI' = e
  /\ pc' = "idle"
  /\ UNCHANGED <<ec2Vars, known, caller, eniID, freeDevice, retry, ret, failures>>

\* What nodeInit and the reconciler make of the list; on an error nothing changes.
GetAttachedENIs ==
  /\ pc = "idle"
  /\ known' = Attached
  /\ UNCHANGED <<ec2Vars, primaryENI, pc, caller, eniID, freeDevice, retry, ret, failures>>

-----------------------------------------------------------------------------
(* AllocENI *)

AllocENI ==
  /\ pc = "idle"
  /\ pc' = "create"
  /\ eniID' = NoENI
  /\ ret' = [id |-> NoENI, ok |-> FALSE]
  /\ failures' = 0
  /\ UNCHANGED <<ec2Vars, primaryENI, known, caller, freeDevice, retry>>

\* createENI, and tagENI after it.
createENI ==
  /\ pc = "create"
  /\ \/ \E e \in ENI :
          /\ status[e] = "none"
          /\ status' = [status EXCEPT ![e] = "available"]
          /\ \/ works /\ eniID' = e /\ pc' = "device"
             \/ lost /\ pc' = "idle" /\ UNCHANGED eniID
     \/ fails /\ pc' = "idle" /\ UNCHANGED <<status, eniID>>
  /\ UNCHANGED <<device, withInstance, lag, primaryENI, known, caller, freeDevice, retry, ret>>

\* deleteENI after attachENI failed: its error is dropped, attachENI's is returned.
attachFailed == pc' = "delete" /\ caller' = "attachENI" /\ retry' = 1

\* A slip: the number of attached ENIs is taken for a free device number.
awsGetFreeDeviceNumber_Count ==
  /\ pc = "device"
  /\ works
  /\ freeDevice' = Cardinality(Used)
  /\ pc' = "attach"
  /\ UNCHANGED <<ec2Vars, primaryENI, known, eniID, ret, caller, retry>>

\* awsGetFreeDeviceNumber: the lowest free one.  Device is 0 .. maxENIs - 1, and EC2 gives
\* no other device number: an instance has far fewer ENIs than maxENIs, 128, so the
\* branch that warns of a DeviceIndex above maxENIs is not taken.
awsGetFreeDeviceNumber ==
  /\ pc = "device"
  /\ \/ /\ works
        /\ \E d \in Device \ Used : freeDevice' = d /\ \A f \in Device \ Used : d <= f
        /\ pc' = "attach"
        /\ UNCHANGED <<caller, retry>>
     \/ /\ fails \/ (works /\ Device \subseteq Used)
        /\ attachFailed
        /\ UNCHANGED freeDevice
  /\ UNCHANGED <<ec2Vars, primaryENI, known, eniID, ret>>

\* attachENI.  EC2 refuses a device number that was taken meanwhile, and an ENI
\* above the limit.
attachENI ==
  /\ pc = "attach"
  /\ LET possible == freeDevice \notin Used /\ Cardinality(Attached) < InstanceENILimit
     IN  \/ /\ possible
            /\ status' = [status EXCEPT ![eniID] = "in-use"]
            /\ device' = [device EXCEPT ![eniID] = freeDevice]
            /\ withInstance' = withInstance \ {eniID}
            /\ \/ works /\ pc' = "modify" /\ UNCHANGED <<caller, retry>>
               \/ lost /\ attachFailed
         \/ /\ fails \/ (works /\ ~possible)
            /\ attachFailed
            /\ UNCHANGED <<status, device, withInstance>>
  /\ UNCHANGED <<lag, primaryENI, known, eniID, freeDevice, ret>>

\* A slip: AllocENI returns the ENI although the attribute was not changed.
ModifyNetworkInterfaceAttribute_Logged ==
  /\ pc = "modify"
  /\ \/ works /\ withInstance' = withInstance \cup {eniID}
     \/ fails /\ UNCHANGED withInstance
  /\ known' = known \cup {eniID}
  /\ ret' = [id |-> eniID, ok |-> TRUE]
  /\ pc' = "idle"
  /\ UNCHANGED <<status, device, lag, primaryENI, caller, eniID, freeDevice, retry>>

\* The rest of AllocENI: DeleteOnTermination, or FreeENI.  The caller puts the ENI
\* into the data store when it shows up in the instance metadata.
ModifyNetworkInterfaceAttribute ==
  /\ pc = "modify"
  /\ \/ /\ works
        /\ status[eniID] = "in-use"
        /\ withInstance' = withInstance \cup {eniID}
        /\ known' = known \cup {eniID}
        /\ ret' = [id |-> eniID, ok |-> TRUE]
        /\ pc' = "idle"
        /\ UNCHANGED caller
     \/ /\ fails \/ (works /\ status[eniID] # "in-use")
        /\ pc' = "describe" /\ caller' = "AllocENI"
        /\ UNCHANGED <<withInstance, known, ret>>
  /\ UNCHANGED <<status, device, lag, primaryENI, eniID, freeDevice, retry>>

-----------------------------------------------------------------------------
(* freeENI and deleteENI *)

\* AllocENI returns what errors.Wrap makes of FreeENI's error: nil if it was nil.
return(ok) ==
  /\ pc' = "idle"
  /\ ret' = IF caller = "AllocENI" THEN [id |-> NoENI, ok |-> ok] ELSE ret

\* The caller has taken the ENI out of the data store, and never takes the primary one.
FreeENI(e) ==
  /\ pc = "idle"
  /\ e \in known \ {primaryENI}
  /\ known' = known \ {e}
  /\ eniID' = e /\ caller' = "FreeENI"
  /\ pc' = "describe"
  /\ ret' = [id |-> NoENI, ok |-> FALSE]
  /\ failures' = 0
  /\ UNCHANGED <<ec2Vars, primaryENI, freeDevice, retry>>

\* DescribeENI: not found is success; an ENI without an attachment is a nil
\* dereference.
DescribeENI ==
  /\ pc = "describe"
  /\ retry' = 0
  /\ \/ works /\ status[eniID] \in {"in-use", "detaching"} /\ pc' = "detach" /\ UNCHANGED ret
     \/ works /\ status[eniID] = "available" /\ pc' = "panic" /\ UNCHANGED ret
     \/ works /\ status[eniID] = "none" /\ return(TRUE)
     \/ fails /\ return(FALSE)
  /\ UNCHANGED <<ec2Vars, primaryENI, known, caller, eniID, freeDevice>>

DetachNetworkInterface ==
  /\ pc = "detach"
  /\ LET detached ==
           /\ status[eniID] = "in-use"
           /\ status' = [status EXCEPT ![eniID] = "detaching"]
           /\ lag' = 0
         again ==
           IF retry = maxENIDeleteRetries
           THEN return(FALSE) /\ UNCHANGED retry
           ELSE retry' = retry + 1 /\ UNCHANGED <<pc, ret>>
     IN  \/ works /\ detached /\ pc' = "delete" /\ retry' = 1 /\ UNCHANGED ret
         \/ lost /\ detached /\ again
         \/ /\ fails \/ (works /\ status[eniID] # "in-use")
            /\ again
            /\ UNCHANGED <<status, lag>>
  /\ UNCHANGED <<device, withInstance, primaryENI, known, caller, eniID, freeDevice>>

\* EC2 refuses to delete an ENI that has an attachment, or that is not there.
refusesDelete ==
  \/ fails /\ UNCHANGED lag
  \/ works /\ status[eniID] = "detaching" /\ lag < DetachLag /\ lag' = lag + 1
  \/ works /\ status[eniID] \in {"in-use", "none"} /\ UNCHANGED lag

\* A slip: the last attempt is not made.
deleteENI_OneLess ==
  /\ pc = "delete"
  /\ \/ /\ works
        /\ status[eniID] = "available"
        /\ status' = [status EXCEPT ![eniID] = "none"]
        /\ return(TRUE)
        /\ UNCHANGED <<retry, lag>>
     \/ /\ refusesDelete
        /\ IF retry >= maxENIDeleteRetries - 1
           THEN return(FALSE) /\ UNCHANGED retry
           ELSE retry' = retry + 1 /\ UNCHANGED <<pc, ret>>
        /\ UNCHANGED status
  /\ UNCHANGED <<device, withInstance, primaryENI, known, caller, eniID, freeDevice>>

\* A slip: a deletion that was refused is not counted.
deleteENI_NotCounted ==
  /\ pc = "delete"
  /\ \/ /\ works
        /\ status[eniID] = "available"
        /\ status' = [status EXCEPT ![eniID] = "none"]
        /\ return(TRUE)
        /\ UNCHANGED lag
     \/ refusesDelete /\ UNCHANGED <<pc, ret, status>>
  /\ UNCHANGED <<device, withInstance, primaryENI, known, caller, eniID, freeDevice, retry>>

\* One attempt; retry counts them.
deleteENI ==
  /\ pc = "delete"
  /\ LET deleted ==
           status[eniID] = "available" /\ status' = [status EXCEPT ![eniID] = "none"]
         again ==
           IF retry = maxENIDeleteRetries
           THEN return(FALSE) /\ UNCHANGED retry
           ELSE retry' = retry + 1 /\ UNCHANGED <<pc, ret>>
     IN  \/ works /\ deleted /\ return(TRUE) /\ UNCHANGED <<retry, lag>>
         \/ lost /\ deleted /\ again /\ UNCHANGED lag
         \/ refusesDelete /\ again /\ UNCHANGED status
  /\ UNCHANGED <<device, withInstance, primaryENI, known, caller, eniID, freeDevice>>

-----------------------------------------------------------------------------
(* EC2, other users of it, and restarts *)

detachmentOver(e) ==
  /\ status[e] = "detaching"
  /\ status' = [status EXCEPT ![e] = "available"]
  /\ withInstance' = withInstance \ {e}
  /\ UNCHANGED <<device, lag, agentVars, failures>>

\* An ENI that somebody else has created.
otherAttaches(e) ==
  /\ OthersAttach
  /\ status[e] = "none"
  /\ Cardinality(Attached) < InstanceENILimit
  /\ \E d \in Device \ Used : device' = [device EXCEPT ![e] = d]
  /\ status' = [status EXCEPT ![e] = "in-use"]
  /\ UNCHANGED <<withInstance, lag, agentVars, failures>>

otherDetaches(e) ==
  /\ OthersDetach
  /\ e # Primary /\ status[e] = "in-use"
  /\ status' = [status EXCEPT ![e] = "detaching"]
  /\ UNCHANGED <<device, withInstance, lag, agentVars, failures>>

\* ipamd dies, by the panic or otherwise, and starts again.
restart ==
  /\ AgentDies \/ pc = "panic"
  /\ pc' = "init"
  /\ primaryENI' = NoENI /\ known' = {}
  /\ eniID' = NoENI
  /\ ret' = [id |-> NoENI, ok |-> FALSE]
  /\ UNCHANGED <<ec2Vars, caller, freeDevice, retry, failures>>

\* The steps of the agent's goroutine inside a call of AllocENI or FreeENI.
Step ==
  \/ createENI \/ awsGetFreeDeviceNumber \/ attachENI \/ ModifyNetworkInterfaceAttribute
  \/ DescribeENI \/ DetachNetworkInterface \/ deleteENI

ENINext ==
  \/ setPrimaryENI \/ GetAttachedENIs \/ AllocENI \/ Step \/ restart
  \/ \E e \in ENI : FreeENI(e) \/ detachmentOver(e) \/ otherAttaches(e) \/ otherDetaches(e)

ENISpec == ENIInit /\ [][ENINext /\ UNCHANGED world]_<<eniVars, world>>

\* The goroutine does not stop, and EC2 finishes what it has begun.
ENIFairSpec ==
  /\ ENISpec
  /\ WF_eniVars(Step) /\ WF_eniVars(setPrimaryENI) /\ WF_eniVars(restart)
  /\ \A e \in ENI : WF_eniVars(detachmentOver(e))

-----------------------------------------------------------------------------
(* Properties *)

\* Does deleteENI try more often than EC2 refuses?
TriesSuffice == MaxFailures + DetachLag < maxENIDeleteRetries

\* Between calls no ENI is left without an attachment, as long as EC2 refuses fewer
\* calls than deleteENI makes: what AllocENI could not attach, and what FreeENI
\* detached, has been deleted.  Others may attach ENIs all the while.
NoOrphan ==
  world.faults \subseteq {"attach"} /\ TriesSuffice /\ pc = "idle"
    => \A e \in ENI : status[e] \in {"none", "in-use"}

\* The agent never detaches the instance's primary ENI, restarted or not.
PrimaryKept == status[Primary] = "in-use"

\* "also change the ENI's attribute so that the ENI will be deleted when the
\* instance is deleted" (awsutils.go:561): every ENI the agent works with, as long
\* as one call fails at most, deleteENI does not give up, and nobody else attaches
\* ENIs.
DiesWithInstance ==
  world.faults = {} /\ MaxFailures <= 1 /\ TriesSuffice => known \subseteq withInstance

\* AllocENI and FreeENI return, whatever EC2 answers and others do, unless ipamd is
\* restarted for ever.
CallsReturn == ~AgentDies /\ pc # "idle" ~> pc = "idle"

\* "AllocENI creates an ENI and attaches it to the instance, returns: newly created
\* ENI ID" (awsutils.go:545), when it returns no error.
AllocENIReturnsENI == pc = "idle" /\ ret.ok => ret.id \in Attached

\* "FreeENI detaches and deletes the ENI interface" (awsutils.go:714), and does not
\* panic.
NeverPanics == pc # "panic"

=============================================================================
