----------------------------- MODULE Delegation -----------------------------
(***************************************************************************)
(* The delegation manager of the gateways (warp-gateway-common,            *)
(* delegation.rs): NFS delegations and SMB oplocks are granted, recalled,  *)
(* returned by their holder, and revoked one by one, for a client, or when *)
(* a recall has timed out.                                                 *)
(*                                                                         *)
(* by_file and by_client are concurrent maps held for one access at a      *)
(* time, so every access is a step of its own.  A grant that is refused,   *)
(* or that finds the client's own active delegation, changes nothing: an   *)
(* active delegation stands in the way of any other, whatever their types. *)
(***************************************************************************)
EXTENDS GatewayClients

CONSTANT
  MaxGrants     \* bound: delegations that are created

ASSUME DelegationConstants == MaxGrants \in Nat

VARIABLES
  held,      \* by_file: the delegation of each file, or NoDelegation
  index,     \* by_client: the files of each client
  dnext,     \* next_seqid
  dpc, dloc, \* where each thread is, and its locals
  out,       \* history: delegations that clients were granted and have not given up
  recalled,  \* history: the delegations whose recall was requested
  ended,     \* history: the delegations that were returned or revoked
  wronged,   \* history: bulk revocations that took a delegation not meant for them
  replaced,  \* history: a grant replaced a delegation that was being recalled
  delegationOverlapped \* history: two calls have been under way at the same time

dHistVars == <<out, recalled, ended, wronged, replaced>>
delegationVars == <<held, index, dnext, dpc, dloc, dHistVars, delegationOverlapped>>

NoDelegation == [id |-> 0, file |-> "none", client |-> NoClient, state |-> "None"]
DNoWork      == [deleg |-> NoDelegation, todo |-> {}, client |-> NoClient, cleanup |-> FALSE]

DBusy == {t \in Threads : dpc[t] # "idle"}

DGoto(t, label, work) ==
  /\ dpc' = [dpc EXCEPT ![t] = label]
  /\ dloc' = [dloc EXCEPT ![t] = work]
  /\ delegationOverlapped' = (delegationOverlapped \/ (label # "idle" /\ DBusy \ {t} # {}))

DReturn(t) == DGoto(t, "idle", DNoWork)

-----------------------------------------------------------------------------
DelegationInit ==
  /\ held = [f \in Files |-> NoDelegation]
  /\ index = [c \in Clients |-> {}]
  /\ dnext = 1
  /\ dpc = [t \in Threads |-> "idle"]
  /\ dloc = [t \in Threads |-> DNoWork]
  /\ out = {} /\ recalled = {} /\ ended = {} /\ wronged = {} /\ replaced = FALSE
  /\ delegationOverlapped = FALSE

(* grant *)

\* Mutant: only the client's own delegation stands in the way.
GrantOther(t, f, c) ==
  /\ dpc[t] = "idle"
  /\ dnext <= MaxGrants
  /\ held[f].state = "Active" => held[f].client # c
  /\ dnext' = dnext + 1
  /\ DGoto(t, "grant", [DNoWork EXCEPT !.deleg =
          [id |-> dnext, file |-> f, client |-> c, state |-> "Active"]])
  /\ UNCHANGED <<held, index, dHistVars>>

\* Only an active delegation stands in the way.
Grant(t, f, c) ==
  /\ dpc[t] = "idle"
  /\ dnext <= MaxGrants
  /\ held[f].state # "Active"
  /\ dnext' = dnext + 1
  /\ DGoto(t, "grant", [DNoWork EXCEPT !.deleg =
          [id |-> dnext, file |-> f, client |-> c, state |-> "Active"]])
  /\ UNCHANGED <<held, index, dHistVars>>

\* by_file.insert, over whatever is there by now.
GrantInsert(t) ==
  /\ dpc[t] = "grant"
  /\ held' = [held EXCEPT ![dloc[t].deleg.file] = dloc[t].deleg]
  /\ replaced' = (replaced \/ held[dloc[t].deleg.file] # NoDelegation)
  /\ DGoto(t, "grant_index", dloc[t])
  /\ UNCHANGED <<index, dnext, out, recalled, ended, wronged>>

GrantIndex(t) ==
  /\ dpc[t] = "grant_index"
  /\ LET d == dloc[t].deleg
     IN  /\ index' = [index EXCEPT ![d.client] = @ \cup {d.file}]
         /\ out' = IF d.id \in ended THEN out ELSE out \cup {d}
  /\ DReturn(t)
  /\ UNCHANGED <<held, dnext, recalled, ended, wronged, replaced>>

(* recall, and the end of recall_timeout *)

Recall(t, f) ==
  /\ dpc[t] = "idle"
  /\ held[f].state = "Active"
  /\ held' = [held EXCEPT ![f].state = "RecallPending"]
  /\ recalled' = recalled \cup {held[f].id}
  /\ UNCHANGED <<index, dnext, dpc, dloc, out, ended, wronged, replaced, delegationOverlapped>>

RecallTimesOut(f) ==
  /\ held[f].state = "RecallPending"
  /\ held' = [held EXCEPT ![f].state = "RecallExpired"]
  /\ UNCHANGED <<index, dnext, dpc, dloc, dHistVars, delegationOverlapped>>

(* return_delegation *)

\* Mutant: the delegation is read, and taken out only for its owner.
ReturnCopy(t, f, c) ==
  /\ dpc[t] = "idle"
  /\ held[f] # NoDelegation
  /\ out' = {d \in out : ~(d.file = f /\ d.client = c)}
  /\ \/ /\ held[f].client = c
        /\ held' = [held EXCEPT ![f] = NoDelegation]
        /\ ended' = ended \cup {held[f].id}
        /\ DGoto(t, "return_index", [DNoWork EXCEPT !.deleg = held[f]])
     \/ /\ held[f].client # c
        /\ DGoto(t, "put_back", [DNoWork EXCEPT !.deleg = held[f]])
        /\ UNCHANGED <<held, ended>>
  /\ UNCHANGED <<index, dnext, recalled, wronged, replaced>>

\* The delegation is taken out before its owner is looked at.  A client that
\* returns a file has given it up, whatever the answer.
ReturnTake(t, f, c) ==
  /\ dpc[t] = "idle"
  /\ held[f] # NoDelegation
  /\ held' = [held EXCEPT ![f] = NoDelegation]
  /\ out' = {d \in out : ~(d.file = f /\ d.client = c)}
  /\ \/ /\ held[f].client = c
        /\ ended' = ended \cup {held[f].id}
        /\ DGoto(t, "return_index", [DNoWork EXCEPT !.deleg = held[f]])
     \/ /\ held[f].client # c
        /\ DGoto(t, "put_back", [DNoWork EXCEPT !.deleg = held[f]])
        /\ UNCHANGED ended
  /\ UNCHANGED <<index, dnext, recalled, wronged, replaced>>

\* It belonged to another client and is put back.
PutBack(t) ==
  /\ dpc[t] = "put_back"
  /\ held' = [held EXCEPT ![dloc[t].deleg.file] = dloc[t].deleg]
  /\ DReturn(t)
  /\ UNCHANGED <<index, dnext, dHistVars>>

\* files.retain in the index of the delegation's client.
Unindex(t) == index' = [index EXCEPT ![dloc[t].deleg.client] = @ \ {dloc[t].deleg.file}]

\* Mutant: the file stays in the index of the client that returned it.
ReturnIndexKept(t) ==
  /\ dpc[t] = "return_index"
  /\ DReturn(t)
  /\ UNCHANGED <<held, index, dnext, dHistVars>>

ReturnIndex(t) ==
  /\ dpc[t] = "return_index"
  /\ Unindex(t)
  /\ DReturn(t)
  /\ UNCHANGED <<held, dnext, dHistVars>>

(* revoke, revoke_all and cleanup_expired_recalls *)

StartRevoking(t, files, c, expired) ==
  /\ dpc[t] = "idle"
  /\ files # {}
  /\ DGoto(t, "revoke", [DNoWork EXCEPT !.todo = files, !.client = c, !.cleanup = expired])
  /\ UNCHANGED <<held, index, dnext, dHistVars>>

Revoke(t, f)              == StartRevoking(t, {f}, NoClient, FALSE)
RevokeAll(t, c)           == StartRevoking(t, index[c], c, FALSE)
CleanupExpiredRecalls(t)  ==
  StartRevoking(t, {f \in Files : held[f].state = "RecallExpired"}, NoClient, TRUE)

\* Is this delegation one of those the caller of the loop meant?
Meant(t, d) ==
  /\ dloc[t].client # NoClient => d.client = dloc[t].client
  /\ dloc[t].cleanup => d.state = "RecallExpired"

\* revoke of the next file, whoever holds it by now.
RevokeTake(t, f) ==
  /\ dpc[t] = "revoke"
  /\ f \in dloc[t].todo
  /\ held' = [held EXCEPT ![f] = NoDelegation]
  /\ LET d == held[f]
     IN  IF d = NoDelegation
         THEN /\ DGoto(t, "revoke", [dloc[t] EXCEPT !.todo = @ \ {f}])
              /\ UNCHANGED dHistVars
         ELSE /\ DGoto(t, "revoke_index", [dloc[t] EXCEPT !.todo = @ \ {f}, !.deleg = d])
              /\ out' = {e \in out : e.id # d.id}
              /\ ended' = ended \cup {d.id}
              /\ wronged' = IF Meant(t, d) THEN wronged
                            ELSE wronged \cup {IF dloc[t].cleanup THEN "cleanup" ELSE "revoke_all"}
              /\ UNCHANGED <<recalled, replaced>>
  /\ UNCHANGED <<index, dnext>>

RevokeIndex(t) ==
  /\ dpc[t] = "revoke_index"
  /\ Unindex(t)
  /\ DGoto(t, "revoke", [dloc[t] EXCEPT !.deleg = NoDelegation])
  /\ UNCHANGED <<held, dnext, dHistVars>>

\* The loop ends; revoke_all drops the client's index.
RevokeDone(t) ==
  /\ dpc[t] = "revoke"
  /\ dloc[t].todo = {}
  /\ index' = [c \in Clients |-> IF c = dloc[t].client THEN {} ELSE index[c]]
  /\ DReturn(t)
  /\ UNCHANGED <<held, dnext, dHistVars>>

-----------------------------------------------------------------------------
DelegationCall(t) ==
  \/ \E f \in Files :
       \/ \E c \in Clients : ReturnTake(t, f, c) \/ Grant(t, f, c)
       \/ Recall(t, f)
       \/ Revoke(t, f)
  \/ \E c \in Clients : RevokeAll(t, c)
  \/ CleanupExpiredRecalls(t)

DelegationContinue(t) ==
  \/ GrantInsert(t) \/ GrantIndex(t)
  \/ PutBack(t) \/ ReturnIndex(t)
  \/ \E f \in Files : RevokeTake(t, f)
  \/ RevokeIndex(t) \/ RevokeDone(t)

DelegationNext ==
  \/ \E t \in Threads : DelegationCall(t) \/ DelegationContinue(t)
  \/ \E f \in Files : RecallTimesOut(f)

DelegationSpec == DelegationInit /\ [][DelegationNext]_delegationVars

-----------------------------------------------------------------------------
(* Properties *)

Ids         == 0 .. MaxGrants
Delegations == [id : Ids \ {0}, file : Files, client : Clients,
                state : {"Active", "RecallPending", "RecallExpired"}]

\* The types; every delegation in the table has an id below the sequence.
DelegationTypeOK ==
  /\ dnext \in 1 .. MaxGrants + 1
  /\ \A f \in Files : held[f] # NoDelegation =>
       held[f] \in Delegations /\ held[f].file = f /\ held[f].id < dnext
  /\ index \in [Clients -> SUBSET Files]
  /\ out \subseteq Delegations

\* What has ended does not come back, and a recall sticks: a delegation that was
\* returned or revoked is not in the table again, and one whose recall was
\* requested is never active again, however its return, recall or revocation
\* crosses with a return by the wrong client, which takes it out and puts it back.
NoResurrection ==
  \A f \in Files :
    /\ held[f].id \notin ended
    /\ held[f].state = "Active" => held[f].id \notin recalled

\* As long as calls come one after the other, a client whose delegation was
\* neither recalled nor revoked still has it (delegation.rs:275 "Request recall
\* of a delegation" is how it is taken back), and revoke_all of that client would
\* find it (delegation.rs:201 "Delegations by client ID (for cleanup)").
UnrecalledIsHeld ==
  (~delegationOverlapped /\ DBusy = {})
    => \A d \in out : d.id \notin recalled =>
         /\ held[d.file].id = d.id
         /\ d.file \in index[d.client]

\* revoke_all revokes the delegations of its client and the cleanup those whose
\* recall has expired (delegation.rs:349 "Revoke all delegations for a client",
\* delegation.rs:367 "Clean up expired recalls"): by_client leads to no file of
\* another client, as long as calls come one after the other and no grant has
\* replaced a delegation that its client had still to give back.
RevokesOnlyMeant == (~delegationOverlapped /\ ~replaced) => wronged = {}
=============================================================================
