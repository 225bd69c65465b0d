---------------------------- MODULE GatewayProofs ----------------------------
(* What the delegation, session and lease managers guarantee, for any number  *)
(* of threads, clients, files, keys and sessions.                             *)
EXTENDS Delegation, Session, Lease, TLAPS

-----------------------------------------------------------------------------
(* Delegations *)

Granted == [id : Nat \ {0}, file : Files, client : Clients,
            state : {"Active", "RecallPending", "RecallExpired"}]
DLabels == {"idle", "grant", "grant_index", "put_back", "return_index", "revoke", "revoke_index"}
DWork   == [deleg : Granted \cup {NoDelegation}, todo : SUBSET Files,
            client : Clients \cup {NoClient}, cleanup : BOOLEAN]

DTypes ==
  /\ dnext \in Nat \ {0}
  /\ held \in [Files -> Granted \cup {NoDelegation}]
  /\ index \in [Clients -> SUBSET Files]
  /\ dpc \in [Threads -> DLabels] /\ dloc \in [Threads -> DWork]
  /\ out \subseteq Granted
  /\ ended \subseteq 1 .. dnext - 1 /\ recalled \subseteq 1 .. dnext - 1
  /\ replaced \in BOOLEAN /\ delegationOverlapped \in BOOLEAN

InHand == \A t \in Threads : dpc[t] \notin {"idle", "revoke"} => dloc[t].deleg \in Granted

\* An id names one delegation: its file and its client never change.
Same(a, b) == a.id = b.id => a.id = 0 \/ (a.file = b.file /\ a.client = b.client)

Known == {held[f] : f \in Files} \cup {dloc[t].deleg : t \in Threads} \cup out
OneOfEach ==
  /\ \A f \in Files : held[f] # NoDelegation => held[f].file = f
  /\ \A d \in Known : d.id < dnext
  /\ \A d, e \in Known : Same(d, e)

\* A delegation that a thread is about to put into the table is nowhere else.
Carries(t) == dpc[t] \in {"grant", "put_back"}
Carried ==
  \A t \in Threads : Carries(t) =>
    LET d == dloc[t].deleg
    IN  /\ d.id \notin ended
        /\ d.state = "Active" => d.id \notin recalled
        /\ \A f \in Files : held[f].id # d.id
        /\ \A u \in Threads \ {t} : Carries(u) => dloc[u].deleg.id # d.id

TableInv == DTypes /\ InHand /\ OneOfEach /\ Carried /\ NoResurrection

\* The empty record and the empty locals.
LEMMA NoDelegationFacts ==
  /\ NoDelegation \notin Granted /\ NoDelegation.id = 0 /\ NoDelegation.state = "None"
  /\ \A d \in Granted : d.id \in Nat /\ d.id # 0 /\ d.file \in Files /\ d.client \in Clients
                        /\ d.state \in {"Active", "RecallPending", "RecallExpired"}
  /\ DNoWork \in DWork /\ DNoWork.deleg = NoDelegation /\ DNoWork.todo = {} /\ DNoWork.client = NoClient
  /\ DNoWork.cleanup = FALSE
BY DEF NoDelegation, Granted, DNoWork, DWork

\* Nothing is held and nothing has ended at the start.
LEMMA TableInitial == DelegationInit => TableInv
<1> SUFFICES ASSUME DelegationInit PROVE TableInv
  OBVIOUS
<1>1. DTypes
  <2>1. held \in [Files -> Granted \cup {NoDelegation}] /\ dloc \in [Threads -> DWork] /\ dpc \in [Threads -> DLabels]
    BY NoDelegationFacts DEF DelegationInit, DLabels
  <2>2. dnext \in Nat \ {0} /\ index \in [Clients -> SUBSET Files]
    BY DEF DelegationInit
  <2>3. out = {} /\ ended = {} /\ recalled = {} /\ replaced = FALSE /\ delegationOverlapped = FALSE
    BY DEF DelegationInit
  <2> QED
    BY <2>1, <2>2, <2>3 DEF DTypes
<1>2. \A d \in Known : d = NoDelegation
  BY NoDelegationFacts DEF DelegationInit, Known
<1>3. OneOfEach
  BY <1>2, NoDelegationFacts DEF DelegationInit, OneOfEach, Same
<1>4. InHand /\ Carried /\ NoResurrection
  BY DEF DelegationInit, InHand, Carried, Carries, NoResurrection, NoDelegation
<1> QED
  BY <1>1, <1>3, <1>4 DEF TableInv

\* Every record that a step leaves behind is one that was there before, perhaps in
\* another state.
LEMMA NothingNew ==
  ASSUME TableInv, dnext' = dnext,
         \A d \in Known' : d = NoDelegation \/ \E e \in Known : e.id = d.id /\ e.file = d.file /\ e.client = d.client,
         \A f \in Files : held'[f] # NoDelegation => held'[f].file = f
  PROVE  OneOfEach'
<1>1. OneOfEach /\ dnext \in Nat /\ dnext > 0
  BY DEF TableInv, DTypes
<1>2. \A d \in Known' : d.id < dnext
  BY <1>1, NoDelegationFacts DEF OneOfEach
<1>3. ASSUME NEW d \in Known', NEW e \in Known' PROVE Same(d, e)
  <2>1. CASE d = NoDelegation \/ e = NoDelegation
    BY <2>1, NoDelegationFacts DEF Same
  <2>2. CASE d # NoDelegation /\ e # NoDelegation
    BY <1>1, <2>2 DEF OneOfEach, Same
  <2> QED
    BY <2>1, <2>2
<1> QED
  BY <1>2, <1>3 DEF OneOfEach

\* A record is known when a file holds it, a thread carries it or grant has
\* handed it out.
LEMMA KnownRecords ==
  /\ \A d : d \in Known <=> (\E f \in Files : d = held[f]) \/ (\E t \in Threads : d = dloc[t].deleg) \/ d \in out
  /\ \A d : d \in Known' <=> (\E f \in Files : d = held'[f]) \/ (\E t \in Threads : d = dloc'[t].deleg) \/ d \in out'
BY DEF Known

\* grant's check draws a fresh id, which no known record has.
LEMMA GrantKeepsTable ==
  ASSUME TableInv, NEW t \in Threads, NEW f \in Files, NEW c \in Clients, Grant(t, f, c) PROVE TableInv'
<1>0. DTypes /\ InHand /\ OneOfEach /\ Carried /\ NoResurrection
  BY DEF TableInv
<1> DEFINE d == [id |-> dnext, file |-> f, client |-> c, state |-> "Active"]
           work == [DNoWork EXCEPT !.deleg = d]
<1>1. d \in Granted /\ work \in DWork /\ work.deleg = d /\ d.id = dnext /\ d.state = "Active"
  BY <1>0 DEF DTypes, Granted, DNoWork, DWork
<1>2. /\ dpc' = [dpc EXCEPT ![t] = "grant"] /\ dloc' = [dloc EXCEPT ![t] = work] /\ dnext' = dnext + 1
      /\ delegationOverlapped' = (delegationOverlapped \/ ("grant" # "idle" /\ DBusy \ {t} # {}))
      /\ UNCHANGED <<held, index, out, recalled, ended, wronged, replaced>>
  BY DEF Grant, DGoto, dHistVars
<1> HIDE DEF d, work
<1>3. /\ dpc'[t] = "grant" /\ dloc'[t].deleg = d
      /\ \A u \in Threads \ {t} : dpc'[u] = dpc[u] /\ dloc'[u] = dloc[u]
  BY <1>0, <1>1, <1>2 DEF DTypes
<1>4. DTypes'
  BY <1>0, <1>1, <1>2 DEF DTypes, DLabels
<1>5. InHand'
  BY <1>0, <1>1, <1>3 DEF InHand
<1>6. \A e \in Known' : e \in Known \/ e = d
  BY <1>2, <1>3, KnownRecords
<1>7. \A e \in Known : e.id < dnext /\ e.id # dnext
  BY <1>0 DEF OneOfEach, DTypes
<1>8. OneOfEach'
  <2>1. \A e \in Known' : e.id < dnext'
    BY <1>0, <1>1, <1>2, <1>6, <1>7, KnownRecords, NoDelegationFacts DEF DTypes, DWork
  <2>2. \A e, g \in Known' : Same(e, g)
    BY <1>0, <1>1, <1>6, <1>7 DEF OneOfEach, Same
  <2> QED
    BY <1>0, <1>2, <2>1, <2>2 DEF OneOfEach
<1>9. Carried'
  <2>1. d.id \notin ended /\ d.id \notin recalled
    BY <1>0, <1>1 DEF DTypes
  <2>2. (\A g \in Files : held[g].id # d.id) /\ (\A u \in Threads : dloc[u].deleg.id # d.id)
    BY <1>1, <1>7, KnownRecords
  <2> QED
    BY <1>0, <1>2, <1>3, <2>1, <2>2 DEF Carried, Carries
<1>10. NoResurrection'
  BY <1>0, <1>2 DEF NoResurrection
<1> QED
  BY <1>4, <1>5, <1>8, <1>9, <1>10 DEF TableInv

\* A step of one thread that leaves the table and the histories of its delegations
\* alone, and after which the thread carries nothing to the table.
LEMMA QuietStep ==
  ASSUME TableInv, NEW t \in Threads, NEW label \in DLabels \ {"grant", "put_back"}, NEW work \in DWork,
         DGoto(t, label, work), work.deleg \in {NoDelegation, dloc[t].deleg},
         label \notin {"idle", "revoke"} => work.deleg \in Granted,
         UNCHANGED <<held, dnext, recalled, ended, replaced>>,
         index' \in [Clients -> SUBSET Files], out' \subseteq Granted, out' \subseteq out \cup {dloc[t].deleg}
  PROVE  TableInv'
<1>0. DTypes /\ InHand /\ OneOfEach /\ Carried /\ NoResurrection
  BY DEF TableInv
<1>1. /\ dpc' = [dpc EXCEPT ![t] = label] /\ dloc' = [dloc EXCEPT ![t] = work]
      /\ delegationOverlapped' = (delegationOverlapped \/ (label # "idle" /\ DBusy \ {t} # {}))
  BY DEF DGoto
<1>2. /\ dpc'[t] = label /\ dloc'[t] = work
      /\ \A u \in Threads \ {t} : dpc'[u] = dpc[u] /\ dloc'[u] = dloc[u]
  BY <1>0, <1>1 DEF DTypes
<1>3. DTypes'
  BY <1>0, <1>1 DEF DTypes
<1>4. InHand'
  BY <1>0, <1>2 DEF InHand
<1>5. \A d \in Known' : d = NoDelegation \/ d \in Known
  BY <1>2, KnownRecords
<1>6. OneOfEach'
  BY <1>0, <1>5, NothingNew DEF OneOfEach
<1>7. \A u \in Threads : Carries(u)' => u # t /\ Carries(u) /\ dloc'[u] = dloc[u]
  BY <1>2 DEF Carries
<1>8. Carried'
  BY <1>0, <1>7 DEF Carried
<1>9. NoResurrection'
  BY <1>0 DEF NoResurrection
<1> QED
  BY <1>3, <1>4, <1>6, <1>8, <1>9 DEF TableInv

\* A thread puts the delegation it carries into the table.
LEMMA PutStep ==
  ASSUME TableInv, NEW t \in Threads, Carries(t), NEW label \in {"grant_index", "idle"}, NEW work \in DWork,
         DGoto(t, label, work), work.deleg \in {NoDelegation, dloc[t].deleg},
         label # "idle" => work.deleg \in Granted, replaced' \in BOOLEAN,
         held' = [held EXCEPT ![dloc[t].deleg.file] = dloc[t].deleg],
         UNCHANGED <<index, dnext, out, recalled, ended>>
  PROVE  TableInv'
<1>0. DTypes /\ InHand /\ OneOfEach /\ Carried /\ NoResurrection
  BY DEF TableInv
<1> DEFINE d == dloc[t].deleg
<1>1. /\ dpc' = [dpc EXCEPT ![t] = label] /\ dloc' = [dloc EXCEPT ![t] = work]
      /\ delegationOverlapped' = (delegationOverlapped \/ (label # "idle" /\ DBusy \ {t} # {}))
  BY DEF DGoto
<1>2. /\ dpc'[t] = label /\ dloc'[t] = work
      /\ \A u \in Threads \ {t} : dpc'[u] = dpc[u] /\ dloc'[u] = dloc[u]
  BY <1>0, <1>1 DEF DTypes, DLabels
<1>3. d \in Granted /\ d.file \in Files
  BY <1>0, NoDelegationFacts DEF InHand, Carries
<1>4. held'[d.file] = d /\ \A f \in Files \ {d.file} : held'[f] = held[f]
  BY <1>0, <1>3 DEF DTypes
<1>5. DTypes'
  BY <1>0, <1>1, <1>3 DEF DTypes, DLabels
<1>6. InHand'
  BY <1>0, <1>2 DEF InHand
<1>7. \A e \in Known' : e = NoDelegation \/ e \in Known
  BY <1>2, <1>4, KnownRecords
<1>8. OneOfEach'
  BY <1>0, <1>4, <1>7, NothingNew DEF OneOfEach
<1>9. \A u \in Threads : Carries(u)' => u # t /\ Carries(u) /\ dloc'[u] = dloc[u]
  BY <1>2 DEF Carries
<1>10. Carried'
  BY <1>0, <1>4, <1>9 DEF Carried
<1>11. NoResurrection'
  BY <1>0, <1>3, <1>4 DEF NoResurrection, Carried
<1> QED
  BY <1>5, <1>6, <1>8, <1>10, <1>11 DEF TableInv

\* A thread takes a delegation out of the table: it ends, or the thread carries it.
LEMMA TakeStep ==
  ASSUME TableInv, NEW t \in Threads, NEW f \in Files, ~Carries(t),
         NEW label \in {"put_back", "return_index", "revoke", "revoke_index"}, NEW work \in DWork,
         DGoto(t, label, work), work.deleg \in {held[f], dloc[t].deleg},
         held' = [held EXCEPT ![f] = NoDelegation],
         \/ held[f] = NoDelegation /\ label = "revoke" /\ UNCHANGED ended
         \/ held[f] # NoDelegation /\ work.deleg = held[f] /\ label = "put_back" /\ UNCHANGED ended
         \/ held[f] # NoDelegation /\ work.deleg = held[f] /\ label # "put_back" /\ ended' = ended \cup {held[f].id},
         UNCHANGED <<index, dnext, recalled, replaced>>, out' \subseteq out
  PROVE  TableInv'
<1>0. DTypes /\ InHand /\ OneOfEach /\ Carried /\ NoResurrection
  BY DEF TableInv
<1>1. /\ dpc' = [dpc EXCEPT ![t] = label] /\ dloc' = [dloc EXCEPT ![t] = work]
      /\ delegationOverlapped' = (delegationOverlapped \/ (label # "idle" /\ DBusy \ {t} # {}))
  BY DEF DGoto
<1>2. /\ dpc'[t] = label /\ dloc'[t] = work
      /\ \A u \in Threads \ {t} : dpc'[u] = dpc[u] /\ dloc'[u] = dloc[u]
  BY <1>0, <1>1 DEF DTypes
<1>3. held'[f] = NoDelegation /\ \A g \in Files \ {f} : held'[g] = held[g]
  BY <1>0 DEF DTypes
<1>4. held[f] # NoDelegation => held[f] \in Granted /\ held[f].id \in 1 .. dnext - 1 /\ held[f].file = f
  BY <1>0, KnownRecords, NoDelegationFacts DEF DTypes, OneOfEach
<1>5. DTypes'
  BY <1>0, <1>1, <1>4 DEF DTypes, DLabels
<1>6. InHand'
  BY <1>0, <1>2, <1>4 DEF InHand
<1>7. \A e \in Known' : e = NoDelegation \/ e \in Known
  BY <1>2, <1>3, KnownRecords
<1>8. OneOfEach'
  BY <1>0, <1>3, <1>7, NothingNew DEF OneOfEach
<1>9. \A g \in Files : g # f /\ held[f] # NoDelegation => held[g].id # held[f].id
  <2> SUFFICES ASSUME NEW g \in Files, held[f] # NoDelegation, held[g].id = held[f].id PROVE g = f
    OBVIOUS
  <2>1. held[g] # NoDelegation
    BY <1>4, NoDelegationFacts
  <2>2. Same(held[g], held[f])
    BY <1>0, KnownRecords DEF OneOfEach
  <2> QED
    BY <1>0, <1>4, <2>1, <2>2, NoDelegationFacts DEF OneOfEach, Same
<1>10. Carried'
  <2>1. \A u \in Threads : Carries(u)' => (u # t /\ Carries(u) /\ dloc'[u] = dloc[u]) \/ (u = t /\ label = "put_back")
    BY <1>2 DEF Carries
  <2>2. \A u \in Threads : Carries(u) /\ held[f] # NoDelegation => dloc[u].deleg.id # held[f].id
    BY <1>0 DEF Carried
  <2>3. \A u \in Threads : Carries(u) => \A g \in Files : held'[g].id # dloc[u].deleg.id
    BY <1>0, <1>3, NoDelegationFacts DEF Carried, InHand, Carries
  <2>4. label = "put_back" => /\ work.deleg = held[f] /\ held[f].id \notin ended
                              /\ held[f].state = "Active" => held[f].id \notin recalled
                              /\ \A g \in Files : held'[g].id # held[f].id
    BY <1>0, <1>3, <1>4, <1>9, NoDelegationFacts DEF NoResurrection
  <2>5. \A u \in Threads : Carries(u) => dloc[u].deleg.id \notin ended'
    BY <1>0, <2>2 DEF Carried
  <2> SUFFICES ASSUME NEW u \in Threads, Carries(u)'
               PROVE  /\ dloc'[u].deleg.id \notin ended'
                      /\ dloc'[u].deleg.state = "Active" => dloc'[u].deleg.id \notin recalled'
                      /\ \A g \in Files : held'[g].id # dloc'[u].deleg.id
                      /\ \A v \in Threads \ {u} : Carries(v)' => dloc'[v].deleg.id # dloc'[u].deleg.id
    BY DEF Carried
  <2>6. CASE u = t /\ label = "put_back"
    BY <1>2, <2>1, <2>2, <2>4, <2>6
  <2>7. CASE u # t /\ Carries(u) /\ dloc'[u] = dloc[u]
    BY <1>0, <1>2, <2>1, <2>2, <2>3, <2>4, <2>5, <2>7 DEF Carried
  <2> QED
    BY <2>1, <2>6, <2>7
<1>11. NoResurrection'
  <2> SUFFICES ASSUME NEW g \in Files
               PROVE  held'[g].id \notin ended' /\ (held'[g].state = "Active" => held'[g].id \notin recalled')
    BY DEF NoResurrection
  <2>1. CASE g = f
    BY <1>3, <1>5, <2>1, NoDelegationFacts DEF DTypes
  <2>2. CASE g # f
    BY <1>0, <1>3, <1>9, <2>2 DEF NoResurrection
  <2> QED
    BY <2>1, <2>2
<1> QED
  BY <1>5, <1>6, <1>8, <1>10, <1>11 DEF TableInv

\* A recall, and its time running out, change the state of one delegation.
LEMMA StateStep ==
  ASSUME TableInv, NEW f \in Files, held[f] # NoDelegation, NEW s \in {"RecallPending", "RecallExpired"},
         held' = [held EXCEPT ![f].state = s], recalled' \in {recalled, recalled \cup {held[f].id}},
         UNCHANGED <<index, dnext, dpc, dloc, out, ended, replaced, delegationOverlapped>>
  PROVE  TableInv'
<1>0. DTypes /\ InHand /\ OneOfEach /\ Carried /\ NoResurrection
  BY DEF TableInv
<1>1. held[f] \in Granted /\ held[f].id \in 1 .. dnext - 1
  BY <1>0, KnownRecords, NoDelegationFacts DEF DTypes, OneOfEach
<1> DEFINE d == [held[f] EXCEPT !.state = s]
<1>2. d \in Granted /\ d.id = held[f].id /\ d.file = held[f].file /\ d.client = held[f].client /\ d.state = s
  BY <1>1 DEF Granted
<1>3. held'[f] = d /\ \A g \in Files \ {f} : held'[g] = held[g]
  BY <1>0 DEF DTypes
<1> HIDE DEF d
<1>4. DTypes'
  <2>1. held' \in [Files -> Granted \cup {NoDelegation}]
    BY <1>0, <1>2, <1>3 DEF DTypes
  <2> QED
    BY <1>0, <1>1, <2>1 DEF DTypes
<1>5. \A e \in Known' : e = d \/ e \in Known
  BY <1>3, KnownRecords
<1>6. OneOfEach'
  <2>1. held[f] \in Known
    BY KnownRecords
  <2>2. \A g \in Files : held'[g] # NoDelegation => held'[g].file = g
    BY <1>0, <1>2, <1>3 DEF OneOfEach
  <2> QED
    BY <1>2, <1>5, <2>1, <2>2, NothingNew
<1>7. \A g \in Files : held'[g].id = held[g].id
  BY <1>2, <1>3
<1>8. \A g \in Files : g # f => held[g].id # held[f].id
  <2> SUFFICES ASSUME NEW g \in Files, held[g].id = held[f].id PROVE g = f
    OBVIOUS
  <2>1. held[g] # NoDelegation /\ Same(held[g], held[f])
    BY <1>0, <1>1, KnownRecords, NoDelegationFacts DEF OneOfEach
  <2> QED
    BY <1>0, <1>1, <2>1 DEF OneOfEach, Same
<1>9. InHand' /\ Carried'
  BY <1>0, <1>7 DEF InHand, Carried, Carries
<1>10. NoResurrection'
  BY <1>0, <1>2, <1>3, <1>7, <1>8 DEF NoResurrection
<1> QED
  BY <1>4, <1>6, <1>9, <1>10 DEF TableInv

\* Nothing changes.
LEMMA TableStays == ASSUME TableInv, UNCHANGED delegationVars PROVE TableInv'
<1>1. UNCHANGED <<held, index, dnext, dpc, dloc, out, recalled, ended, replaced, delegationOverlapped>>
  BY DEF delegationVars, dHistVars
<1> QED
  BY <1>1 DEF TableInv, DTypes, InHand, OneOfEach, Known, Carried, Carries, NoResurrection

\* Every step keeps the table's invariant, one case per action.
LEMMA TablePreserved == ASSUME TableInv, [DelegationNext]_delegationVars PROVE TableInv'
<1>0. DTypes /\ InHand
  BY DEF TableInv
<1>1. ASSUME NEW t \in Threads, GrantInsert(t) PROVE TableInv'
  <2>1. dloc[t] \in DWork /\ dloc[t].deleg \in Granted /\ Carries(t)
    BY <1>0, <1>1 DEF GrantInsert, DTypes, InHand, Carries
  <2>2. replaced' \in BOOLEAN /\ DGoto(t, "grant_index", dloc[t])
        /\ held' = [held EXCEPT ![dloc[t].deleg.file] = dloc[t].deleg]
        /\ UNCHANGED <<index, dnext, out, recalled, ended>>
    BY <1>0, <1>1 DEF GrantInsert, DTypes
  <2> QED
    BY <2>1, <2>2, PutStep
<1>2. ASSUME NEW t \in Threads, PutBack(t) PROVE TableInv'
  <2>1. Carries(t) /\ DGoto(t, "idle", DNoWork) /\ held' = [held EXCEPT ![dloc[t].deleg.file] = dloc[t].deleg]
        /\ UNCHANGED <<index, dnext, out, recalled, ended, replaced>>
    BY <1>2 DEF PutBack, Carries, DReturn, dHistVars
  <2>2. replaced' \in BOOLEAN
    BY <1>0, <2>1 DEF DTypes
  <2> QED
    BY <2>1, <2>2, PutStep, NoDelegationFacts
<1>3. ASSUME NEW t \in Threads, GrantIndex(t) PROVE TableInv'
  <2> DEFINE d == dloc[t].deleg
  <2>1. /\ DGoto(t, "idle", DNoWork) /\ UNCHANGED <<held, dnext, recalled, ended, replaced>>
        /\ index' = [index EXCEPT ![d.client] = @ \cup {d.file}]
        /\ out' \subseteq out \cup {d}
    BY <1>3 DEF GrantIndex, DReturn
  <2>2. d \in Granted
    BY <1>0, <1>3 DEF GrantIndex, InHand
  <2>3. index' \in [Clients -> SUBSET Files] /\ out' \subseteq Granted
    BY <1>0, <2>1, <2>2, NoDelegationFacts DEF DTypes
  <2> QED
    BY <2>1, <2>3, QuietStep, NoDelegationFacts DEF DLabels
<1>4. ASSUME NEW t \in Threads, ReturnIndex(t) \/ RevokeDone(t) PROVE TableInv'
  <2>1. DGoto(t, "idle", DNoWork) /\ UNCHANGED <<held, dnext, recalled, ended, replaced, out>>
    BY <1>4 DEF ReturnIndex, RevokeDone, DReturn, dHistVars
  <2>2. index' \in [Clients -> SUBSET Files] /\ out' \subseteq Granted
    BY <1>0, <1>4, <2>1 DEF ReturnIndex, RevokeDone, Unindex, DTypes
  <2> QED
    BY <2>1, <2>2, QuietStep, NoDelegationFacts DEF DLabels
<1>5. ASSUME NEW t \in Threads, RevokeIndex(t) PROVE TableInv'
  <2> DEFINE work == [dloc[t] EXCEPT !.deleg = NoDelegation]
  <2>1. DGoto(t, "revoke", work) /\ UNCHANGED <<held, dnext, recalled, ended, replaced, out>>
    BY <1>5 DEF RevokeIndex, dHistVars
  <2>2. index' \in [Clients -> SUBSET Files] /\ out' \subseteq Granted
    BY <1>0, <1>5, <2>1 DEF RevokeIndex, Unindex, DTypes
  <2>3. work \in DWork /\ work.deleg = NoDelegation
    BY <1>0 DEF DTypes, DWork
  <2> HIDE DEF work
  <2> QED
    BY <2>1, <2>2, <2>3, QuietStep, NoDelegationFacts DEF DLabels
<1>6. ASSUME NEW t \in Threads, NEW files \in SUBSET Files, NEW c \in Clients \cup {NoClient},
             NEW lapsed \in BOOLEAN, StartRevoking(t, files, c, lapsed)
      PROVE  TableInv'
  <2> DEFINE work == [DNoWork EXCEPT !.todo = files, !.client = c, !.cleanup = lapsed]
  <2>1. DGoto(t, "revoke", work) /\ UNCHANGED <<held, dnext, recalled, ended, replaced, out, index>>
    BY <1>6 DEF StartRevoking, dHistVars
  <2>2. index' \in [Clients -> SUBSET Files] /\ out' \subseteq Granted
    BY <1>0, <2>1 DEF DTypes
  <2>3. work \in DWork /\ work.deleg = NoDelegation
    BY DEF DNoWork, DWork
  <2> HIDE DEF work
  <2> QED
    BY <2>1, <2>2, <2>3, QuietStep, NoDelegationFacts DEF DLabels
<1>7. ASSUME NEW t \in Threads, NEW f \in Files, Revoke(t, f) PROVE TableInv'
  BY <1>6, <1>7 DEF Revoke
<1>8. ASSUME NEW t \in Threads, NEW f \in Files, NEW c \in Clients, ReturnTake(t, f, c) PROVE TableInv'
  <2> DEFINE work == [DNoWork EXCEPT !.deleg = held[f]]
  <2>1. work \in DWork /\ work.deleg = held[f]
    BY <1>0 DEF DTypes, DNoWork, DWork
  <2>2. /\ held[f] # NoDelegation /\ held' = [held EXCEPT ![f] = NoDelegation] /\ out' \subseteq out
        /\ UNCHANGED <<index, dnext, recalled, replaced>> /\ ~Carries(t)
        /\ \/ ended' = ended \cup {held[f].id} /\ DGoto(t, "return_index", work)
           \/ UNCHANGED ended /\ DGoto(t, "put_back", work)
    BY <1>8 DEF ReturnTake, Carries
  <2> HIDE DEF work
  <2> QED
    BY <2>1, <2>2, TakeStep
<1>9. ASSUME NEW t \in Threads, NEW f \in Files, RevokeTake(t, f) PROVE TableInv'
  <2>1. held' = [held EXCEPT ![f] = NoDelegation] /\ UNCHANGED <<index, dnext>> /\ ~Carries(t)
    BY <1>9 DEF RevokeTake, Carries
  <2>2. CASE held[f] = NoDelegation
    <3> DEFINE work == [dloc[t] EXCEPT !.todo = @ \ {f}]
    <3>1. work \in DWork /\ work.deleg = dloc[t].deleg
      BY <1>0 DEF DTypes, DWork
    <3>2. DGoto(t, "revoke", work) /\ UNCHANGED <<ended, recalled, replaced, out>>
      BY <1>9, <2>2 DEF RevokeTake, dHistVars
    <3> HIDE DEF work
    <3> QED
      BY <2>1, <2>2, <3>1, <3>2, TakeStep
  <2>3. CASE held[f] # NoDelegation
    <3> DEFINE work == [dloc[t] EXCEPT !.todo = @ \ {f}, !.deleg = held[f]]
    <3>1. work \in DWork /\ work.deleg = held[f]
      BY <1>0 DEF DTypes, DWork
    <3>2. DGoto(t, "revoke_index", work) /\ UNCHANGED <<recalled, replaced>> /\ ended' = ended \cup {held[f].id}
          /\ out' \subseteq out
      BY <1>9, <2>3 DEF RevokeTake
    <3> HIDE DEF work
    <3> QED
      BY <2>1, <2>3, <3>1, <3>2, TakeStep
  <2> QED
    BY <2>2, <2>3
<1>10. ASSUME NEW t \in Threads, NEW f \in Files, Recall(t, f) PROVE TableInv'
  <2>1. held[f] # NoDelegation
    BY <1>10, NoDelegationFacts DEF Recall
  <2> QED
    BY <1>10, <2>1, StateStep DEF Recall
<1>11. ASSUME NEW f \in Files, RecallTimesOut(f) PROVE TableInv'
  <2>1. held[f] # NoDelegation
    BY <1>11, NoDelegationFacts DEF RecallTimesOut
  <2> QED
    BY <1>11, <2>1, StateStep DEF RecallTimesOut, dHistVars
<1>12. ASSUME NEW t \in Threads, \E c \in Clients : RevokeAll(t, c) PROVE TableInv'
  <2>1. \A c \in Clients : index[c] \in SUBSET Files
    BY <1>0 DEF DTypes
  <2> QED
    BY <1>6, <1>12, <2>1 DEF RevokeAll
<1>13. ASSUME NEW t \in Threads, CleanupExpiredRecalls(t) PROVE TableInv'
  BY <1>6, <1>13 DEF CleanupExpiredRecalls
<1> QED
  BY <1>1, <1>2, <1>3, <1>4, <1>5, <1>7, <1>8, <1>9, <1>10, <1>11, <1>12, <1>13, GrantKeepsTable, TableStays
  DEF DelegationNext, DelegationCall, DelegationContinue

\* The table's invariant holds in every reachable state.
LEMMA TableHolds == DelegationSpec => []TableInv
BY TableInitial, TablePreserved, PTL DEF DelegationSpec

\* A delegation that was returned or revoked never comes back into the table, and
\* one that was recalled is never active again (return_delegation, recall, revoke).
THEOREM EndedStaysEnded == DelegationSpec => []NoResurrection
<1>1. TableInv => NoResurrection
  BY DEF TableInv
<1> QED
  BY <1>1, TableHolds, PTL

-----------------------------------------------------------------------------
(* Calls that come one after the other *)

\* A recall is on record for every delegation that is no longer active.
Pending ==
  /\ \A f \in Files : held[f].state \in {"RecallPending", "RecallExpired"} => held[f].id \in recalled
  /\ \A t \in Threads : Carries(t) /\ dloc[t].deleg.state # "Active" => dloc[t].deleg.id \in recalled

OneCall == \A t, u \in Threads : t # u => dpc[t] = "idle" \/ dpc[u] = "idle"

Unrecalled == {d \in out : d.id \notin recalled}
StillHeld ==
  \A d \in Unrecalled :
    /\ d.file \in index[d.client]
    /\ held[d.file].id = d.id \/ \E t \in Threads : dpc[t] = "put_back" /\ dloc[t].deleg.id = d.id

\* The index leads to delegations of its client, but for the one a call is at.
AtIndex(t, f, c) ==
  dpc[t] \in {"put_back", "return_index", "revoke_index"} /\ dloc[t].deleg.file = f /\ dloc[t].deleg.client = c
IndexTrue ==
  \A c \in Clients : \A f \in index[c] :
    (held[f] # NoDelegation /\ held[f].client = c) \/ \E t \in Threads : AtIndex(t, f, c)

\* What a call knows of the table at each of its steps.
Doing(t) ==
  LET d == dloc[t].deleg
      Gone == \A e \in Unrecalled : ~(e.file = d.file /\ e.client = d.client)
  IN  /\ dpc[t] = "grant" => held[d.file].state # "Active"
      /\ dpc[t] = "grant_index" => held[d.file].id = d.id
      /\ dpc[t] = "put_back" => held[d.file] = NoDelegation
      /\ dpc[t] = "return_index" => Gone
      /\ dpc[t] = "revoke_index" => Gone /\ d.file \notin dloc[t].todo
RevokingAll(t) ==
  dpc[t] \in {"revoke", "revoke_index"} =>
    /\ dloc[t].client # NoClient => \A e \in Unrecalled : e.client = dloc[t].client => e.file \in dloc[t].todo
    /\ dloc[t].cleanup => \A f \in dloc[t].todo : held[f].state = "RecallExpired"
RevokingIndexed(t) ==
  dpc[t] \in {"revoke", "revoke_index"} /\ dloc[t].client # NoClient => dloc[t].todo \subseteq index[dloc[t].client]

InTurn ==
  /\ OneCall /\ StillHeld
  /\ \A t \in Threads : Doing(t) /\ RevokingAll(t)
  /\ ~replaced => wronged = {} /\ IndexTrue /\ \A t \in Threads : RevokingIndexed(t)

SerialInv == TableInv /\ Pending /\ (~delegationOverlapped => InTurn)

\* At the start no thread is inside a call.
LEMMA SerialInitial == DelegationInit => SerialInv
<1> SUFFICES ASSUME DelegationInit PROVE SerialInv
  OBVIOUS
<1>1. TableInv
  BY TableInitial
<1>2. Pending
  BY DEF DelegationInit, Pending, NoDelegation, Carries
<1>3. OneCall /\ StillHeld /\ IndexTrue
  BY DEF DelegationInit, OneCall, StillHeld, IndexTrue, Unrecalled
<1>4. \A t \in Threads : Doing(t) /\ RevokingAll(t) /\ RevokingIndexed(t)
  BY DEF DelegationInit, Doing, RevokingAll, RevokingIndexed
<1> QED
  BY <1>1, <1>2, <1>3, <1>4 DEF SerialInv, InTurn, DelegationInit

\* While calls come one after the other, the thread that takes a step is the only
\* one in a call.
LEMMA Alone ==
  ASSUME SerialInv, NEW t \in Threads, NEW label, NEW work, DGoto(t, label, work),
         dpc[t] # "idle" \/ label # "idle"
  PROVE  /\ dpc'[t] = label /\ dloc'[t] = work
         /\ \A u \in Threads \ {t} : dpc'[u] = dpc[u] /\ dloc'[u] = dloc[u]
         /\ ~delegationOverlapped' => /\ InTurn
                                      /\ \A u \in Threads \ {t} : dpc[u] = "idle" /\ dpc'[u] = "idle"
<1>1. DTypes
  BY DEF SerialInv, TableInv
<1>2. /\ dpc' = [dpc EXCEPT ![t] = label] /\ dloc' = [dloc EXCEPT ![t] = work]
      /\ delegationOverlapped' = (delegationOverlapped \/ (label # "idle" /\ DBusy \ {t} # {}))
  BY DEF DGoto
<1>3. dpc'[t] = label /\ dloc'[t] = work /\ \A u \in Threads \ {t} : dpc'[u] = dpc[u] /\ dloc'[u] = dloc[u]
  BY <1>1, <1>2 DEF DTypes
<1>4. ASSUME ~delegationOverlapped' PROVE InTurn /\ \A u \in Threads \ {t} : dpc[u] = "idle"
  BY <1>2, <1>4 DEF SerialInv, InTurn, OneCall, DBusy
<1> QED
  BY <1>3, <1>4

\* It is then enough to look at that thread.
LEMMA AloneKeeps ==
  ASSUME NEW t \in Threads, \A u \in Threads \ {t} : dpc'[u] = "idle", StillHeld', Doing(t)', RevokingAll(t)',
         ~replaced' => wronged' = {} /\ IndexTrue' /\ RevokingIndexed(t)'
  PROVE  InTurn'
<1>1. OneCall'
  BY DEF OneCall
<1>2. \A u \in Threads \ {t} : Doing(u)' /\ RevokingAll(u)' /\ RevokingIndexed(u)'
  BY DEF Doing, RevokingAll, RevokingIndexed
<1> QED
  BY <1>1, <1>2 DEF InTurn

\* The facts about the records of a state that the steps below draw on.
LEMMA TableFacts ==
  ASSUME TableInv
  PROVE  /\ \A d \in out : d.id # 0 /\ d.file \in Files /\ d.client \in Clients
         /\ \A f \in Files : held[f] # NoDelegation => held[f].file = f /\ held[f].id # 0 /\ held[f].client \in Clients
         /\ \A f \in Files, d \in out : held[f].id = d.id => held[f].client = d.client /\ f = d.file
         /\ \A t \in Threads, d \in out : dloc[t].deleg.id = d.id =>
               dloc[t].deleg.client = d.client /\ dloc[t].deleg.file = d.file
         /\ \A f \in Files, t \in Threads : held[f].id = dloc[t].deleg.id /\ held[f].id # 0 =>
               held[f].client = dloc[t].deleg.client /\ f = dloc[t].deleg.file
<1>1. DTypes /\ OneOfEach
  BY DEF TableInv
<1>2. \A d \in out : d \in Granted /\ d.id # 0 /\ d.file \in Files /\ d.client \in Clients
  BY <1>1, NoDelegationFacts DEF DTypes
<1>3. \A f \in Files : held[f] # NoDelegation => held[f].file = f /\ held[f].id # 0 /\ held[f].client \in Clients
  BY <1>1, NoDelegationFacts DEF DTypes, OneOfEach
<1>4. \A f \in Files, d \in out : Same(held[f], d)
  BY <1>1, KnownRecords DEF OneOfEach
<1>5. \A t \in Threads, d \in out : Same(dloc[t].deleg, d)
  BY <1>1, KnownRecords DEF OneOfEach
<1>6. \A t \in Threads, f \in Files : Same(held[f], dloc[t].deleg)
  BY <1>1, KnownRecords DEF OneOfEach
<1> QED
  BY <1>2, <1>3, <1>4, <1>5, <1>6, NoDelegationFacts DEF Same

\* grant checked the file: the file is free and the call is alone, or the
\* calls overlap.
LEMMA GrantInTurn ==
  ASSUME SerialInv, NEW t \in Threads, NEW f \in Files, NEW c \in Clients, Grant(t, f, c)
  PROVE  Pending' /\ (~delegationOverlapped' => InTurn')
<1> DEFINE d == [id |-> dnext, file |-> f, client |-> c, state |-> "Active"]
           work == [DNoWork EXCEPT !.deleg = d]
<1>1. work.deleg = d /\ d.file = f /\ d.state = "Active"
  BY DEF DNoWork
<1>2. DGoto(t, "grant", work) /\ UNCHANGED <<held, index, out, recalled, wronged, replaced>> /\ dpc[t] = "idle"
      /\ held[f].state # "Active"
  BY DEF Grant, dHistVars
<1> HIDE DEF d, work
<1>3. /\ dpc'[t] = "grant" /\ dloc'[t] = work
      /\ \A u \in Threads \ {t} : dpc'[u] = dpc[u] /\ dloc'[u] = dloc[u]
  BY <1>2, Alone
<1>4. Pending'
  BY <1>1, <1>2, <1>3 DEF SerialInv, Pending, Carries
<1>5. ASSUME ~delegationOverlapped' PROVE InTurn'
  <2>1. InTurn /\ \A u \in Threads \ {t} : dpc[u] = "idle" /\ dpc'[u] = "idle"
    BY <1>2, <1>5, Alone
  <2>2. \A u \in Threads : dpc[u] = "idle"
    BY <1>2, <2>1
  <2>3. StillHeld'
    BY <1>2, <2>1, <2>2 DEF InTurn, StillHeld, Unrecalled
  <2>4. Doing(t)' /\ RevokingAll(t)' /\ RevokingIndexed(t)'
    BY <1>1, <1>2, <1>3 DEF Doing, RevokingAll, RevokingIndexed
  <2>5. ~replaced' => wronged' = {} /\ IndexTrue'
    BY <1>2, <2>1, <2>2 DEF InTurn, IndexTrue, AtIndex
  <2> QED
    BY <2>1, <2>3, <2>4, <2>5, AloneKeeps
<1> QED
  BY <1>4, <1>5

\* grant inserts in by_file; the entry of by_client is still to come.
LEMMA GrantInsertInTurn ==
  ASSUME SerialInv, NEW t \in Threads, GrantInsert(t)
  PROVE  Pending' /\ (~delegationOverlapped' => InTurn')
<1> DEFINE d == dloc[t].deleg
<1>0. DTypes /\ InHand /\ TableInv /\ Pending
  BY DEF SerialInv, TableInv
<1>1. /\ DGoto(t, "grant_index", dloc[t]) /\ UNCHANGED <<index, out, recalled, wronged>> /\ dpc[t] = "grant"
      /\ held' = [held EXCEPT ![d.file] = d]
      /\ replaced' = (replaced \/ held[d.file] # NoDelegation)
  BY DEF GrantInsert
<1>2. d \in Granted /\ d.file \in Files
  BY <1>0, <1>1, NoDelegationFacts DEF InHand
<1>3. /\ dpc'[t] = "grant_index" /\ dloc'[t] = dloc[t]
      /\ \A u \in Threads \ {t} : dpc'[u] = dpc[u] /\ dloc'[u] = dloc[u]
  BY <1>1, Alone
<1>4. held'[d.file] = d /\ \A f \in Files \ {d.file} : held'[f] = held[f]
  BY <1>0, <1>1, <1>2 DEF DTypes
<1>5. Pending'
  BY <1>0, <1>1, <1>3, <1>4 DEF Pending, Carries
<1>6. ASSUME ~delegationOverlapped' PROVE InTurn'
  <2>1. InTurn /\ \A u \in Threads \ {t} : dpc[u] = "idle" /\ dpc'[u] = "idle"
    BY <1>1, <1>6, Alone
  <2>2. held[d.file].state # "Active" /\ StillHeld
    BY <1>1, <2>1 DEF InTurn, Doing
  <2>3. \A e \in Unrecalled : e.file # d.file /\ e.file \in Files /\ held[e.file].id = e.id /\ e.file \in index[e.client]
    <3> SUFFICES ASSUME NEW e \in Unrecalled
                 PROVE  e.file # d.file /\ e.file \in Files /\ held[e.file].id = e.id /\ e.file \in index[e.client]
      OBVIOUS
    <3>1. e \in out /\ e.id \notin recalled /\ e.id # 0 /\ e.file \in Files
      BY <1>0, TableFacts DEF Unrecalled
    <3>2. held[e.file].id = e.id /\ e.file \in index[e.client]
      BY <1>1, <2>1, <2>2 DEF StillHeld
    <3>3. held[e.file] # NoDelegation
      BY <3>1, <3>2, NoDelegationFacts
    <3>4. held[e.file].state = "Active"
      BY <1>0, <3>1, <3>2, <3>3, NoDelegationFacts DEF Pending, DTypes
    <3> QED
      BY <2>2, <3>1, <3>2, <3>4
  <2>4. StillHeld'
    BY <1>1, <1>4, <2>3 DEF StillHeld, Unrecalled
  <2>5. Doing(t)' /\ RevokingAll(t)' /\ RevokingIndexed(t)'
    BY <1>3, <1>4 DEF Doing, RevokingAll, RevokingIndexed
  <2>6. ~replaced' => wronged' = {} /\ IndexTrue'
    <3> SUFFICES ASSUME ~replaced' PROVE wronged' = {} /\ IndexTrue'
      OBVIOUS
    <3>1. ~replaced /\ held[d.file] = NoDelegation /\ wronged = {} /\ IndexTrue
      BY <1>1, <2>1 DEF InTurn
    <3>2. \A c \in Clients : \A f \in index[c] : f # d.file /\ f \in Files /\ held[f] # NoDelegation /\ held[f].client = c
      BY <1>0, <1>1, <2>1, <3>1 DEF IndexTrue, AtIndex, DTypes
    <3> QED
      BY <1>1, <1>4, <3>1, <3>2 DEF IndexTrue
  <2> QED
    BY <2>1, <2>4, <2>5, <2>6, AloneKeeps
<1> QED
  BY <1>5, <1>6

\* grant completes by_client, and the two maps agree again.
LEMMA GrantIndexInTurn ==
  ASSUME SerialInv, NEW t \in Threads, GrantIndex(t)
  PROVE  Pending' /\ (~delegationOverlapped' => InTurn')
<1> DEFINE d == dloc[t].deleg
<1>0. DTypes /\ InHand /\ TableInv /\ Pending
  BY DEF SerialInv, TableInv
<1>1. /\ DGoto(t, "idle", DNoWork) /\ UNCHANGED <<held, recalled, wronged, replaced>> /\ dpc[t] = "grant_index"
      /\ index' = [index EXCEPT ![d.client] = @ \cup {d.file}]
      /\ out' \subseteq out \cup {d}
  BY DEF GrantIndex, DReturn
<1>2. d \in Granted /\ d.file \in Files /\ d.client \in Clients /\ d.id # 0
  BY <1>0, <1>1, NoDelegationFacts DEF InHand
<1>3. /\ dpc'[t] = "idle" /\ dloc'[t] = DNoWork
      /\ \A u \in Threads \ {t} : dpc'[u] = dpc[u] /\ dloc'[u] = dloc[u]
  BY <1>1, Alone
<1>4. index'[d.client] = index[d.client] \cup {d.file} /\ \A c \in Clients \ {d.client} : index'[c] = index[c]
  BY <1>0, <1>1, <1>2 DEF DTypes
<1>5. Pending'
  BY <1>0, <1>1, <1>3 DEF Pending, Carries
<1>6. ASSUME ~delegationOverlapped' PROVE InTurn'
  <2>1. InTurn /\ \A u \in Threads \ {t} : dpc[u] = "idle" /\ dpc'[u] = "idle"
    BY <1>1, <1>6, Alone
  <2>2. held[d.file].id = d.id /\ StillHeld
    BY <1>1, <2>1 DEF InTurn, Doing
  <2>3. \A e \in Unrecalled : held[e.file].id = e.id /\ e.file \in index[e.client] /\ e.client \in Clients
    BY <1>0, <1>1, <2>1, <2>2, TableFacts DEF StillHeld, Unrecalled
  <2>4. StillHeld'
    BY <1>1, <1>2, <1>4, <2>2, <2>3 DEF StillHeld, Unrecalled
  <2>5. Doing(t)' /\ RevokingAll(t)' /\ RevokingIndexed(t)'
    BY <1>3 DEF Doing, RevokingAll, RevokingIndexed
  <2>6. ~replaced' => wronged' = {} /\ IndexTrue'
    <3> SUFFICES ASSUME ~replaced' PROVE wronged' = {} /\ IndexTrue'
      OBVIOUS
    <3>1. wronged = {} /\ IndexTrue
      BY <1>1, <2>1 DEF InTurn
    <3>2. \A c \in Clients : \A f \in index[c] : held[f] # NoDelegation /\ held[f].client = c
      BY <1>1, <2>1, <3>1 DEF IndexTrue, AtIndex
    <3>3. held[d.file] # NoDelegation /\ held[d.file].client = d.client
      BY <1>0, <1>2, <2>2, TableFacts, NoDelegationFacts
    <3> QED
      BY <1>1, <1>4, <3>1, <3>2, <3>3 DEF IndexTrue
  <2> QED
    BY <2>1, <2>4, <2>5, <2>6, AloneKeeps
<1> QED
  BY <1>5, <1>6

\* recall, and the deadline that passes, change the state of one held
\* delegation.
LEMMA RecallInTurn ==
  ASSUME SerialInv, NEW f \in Files, NEW s \in {"RecallPending", "RecallExpired"},
         held[f].state \in {"Active", "RecallPending"}, held[f].state = "RecallPending" => s = "RecallExpired",
         held' = [held EXCEPT ![f].state = s],
         \/ held[f].state = "Active" /\ recalled' = recalled \cup {held[f].id}
         \/ held[f].state = "RecallPending" /\ UNCHANGED recalled,
         UNCHANGED <<index, dnext, dpc, dloc, out, ended, replaced, wronged, delegationOverlapped>>
  PROVE  Pending' /\ (~delegationOverlapped' => InTurn')
<1>0. DTypes /\ TableInv /\ Pending
  BY DEF SerialInv, TableInv
<1>1. held[f] # NoDelegation /\ held[f] \in Granted
  BY <1>0, NoDelegationFacts DEF DTypes
<1>2. /\ \A g \in Files : held'[g].id = held[g].id /\ held'[g].client = held[g].client
      /\ held'[f].state = s /\ held'[f] # NoDelegation
      /\ \A g \in Files \ {f} : held'[g] = held[g]
  BY <1>0, <1>1, NoDelegationFacts DEF DTypes, Granted
<1>3. Pending'
  BY <1>0, <1>2 DEF Pending, Carries
<1>4. Unrecalled' \subseteq Unrecalled
  BY DEF Unrecalled
<1>5. ASSUME ~delegationOverlapped PROVE InTurn'
  <2>1. InTurn
    BY <1>5 DEF SerialInv
  <2>2. OneCall'
    BY <2>1 DEF InTurn, OneCall
  <2>3. StillHeld'
    BY <1>0, <1>2, <1>4, <2>1, TableFacts DEF InTurn, StillHeld, Unrecalled
  <2>4. ASSUME NEW t \in Threads PROVE Doing(t)' /\ RevokingAll(t)' /\ (RevokingIndexed(t) => RevokingIndexed(t)')
    <3>1. Doing(t) /\ RevokingAll(t)
      BY <2>1 DEF InTurn
    <3>2. dpc[t] \notin {"idle", "revoke"} => dloc[t].deleg.file \in Files
      BY <1>0, NoDelegationFacts DEF TableInv, InHand
    <3>3. dloc[t].todo \subseteq Files
      BY <1>0 DEF DTypes, DWork
    <3>4. Doing(t)'
      BY <1>1, <1>2, <1>4, <3>1, <3>2 DEF Doing
    <3>5. RevokingAll(t)'
      BY <1>2, <1>4, <3>1, <3>3 DEF RevokingAll
    <3> QED
      BY <3>4, <3>5 DEF RevokingIndexed
  <2>5. IndexTrue => IndexTrue'
    BY <1>0, <1>2 DEF IndexTrue, AtIndex, DTypes
  <2> QED
    BY <2>1, <2>2, <2>3, <2>4, <2>5 DEF InTurn
<1> QED
  BY <1>3, <1>5

\* return_delegation takes the delegation out of by_file before it compares
\* the ids.
LEMMA ReturnTakeInTurn ==
  ASSUME SerialInv, NEW t \in Threads, NEW f \in Files, NEW c \in Clients, ReturnTake(t, f, c)
  PROVE  Pending' /\ (~delegationOverlapped' => InTurn')
<1> DEFINE d == held[f]
           work == [DNoWork EXCEPT !.deleg = d]
<1>0. DTypes /\ TableInv /\ Pending
  BY DEF SerialInv, TableInv
<1>1. work.deleg = d
  BY DEF DNoWork
<1>2. PICK label \in {"return_index", "put_back"} :
        /\ DGoto(t, label, work) /\ (label = "return_index" => d.client = c)
        /\ UNCHANGED <<index, recalled, wronged, replaced>> /\ dpc[t] = "idle"
        /\ d # NoDelegation /\ held' = [held EXCEPT ![f] = NoDelegation]
        /\ out' = {e \in out : ~(e.file = f /\ e.client = c)}
  BY DEF ReturnTake
<1> HIDE DEF work
<1>3. /\ dpc'[t] = label /\ dloc'[t] = work
      /\ \A u \in Threads \ {t} : dpc'[u] = dpc[u] /\ dloc'[u] = dloc[u]
  BY <1>2, Alone
<1>4. held'[f] = NoDelegation /\ \A g \in Files \ {f} : held'[g] = held[g]
  BY <1>0, <1>2 DEF DTypes
<1>5. d \in Granted /\ d.file = f /\ d.id # 0 /\ d.client \in Clients
  BY <1>0, <1>2, TableFacts, NoDelegationFacts DEF DTypes
<1>6. Pending'
  <2>1. d.state # "Active" => d.id \in recalled
    BY <1>0, <1>5, NoDelegationFacts DEF Pending
  <2> QED
    BY <1>0, <1>1, <1>2, <1>3, <1>4, <2>1, NoDelegationFacts DEF Pending, Carries
<1>7. ASSUME ~delegationOverlapped' PROVE InTurn'
  <2>1. InTurn /\ \A u \in Threads \ {t} : dpc[u] = "idle" /\ dpc'[u] = "idle"
    BY <1>2, <1>7, Alone
  <2>2. \A e \in Unrecalled' : /\ e \in Unrecalled /\ e \in out /\ e.file \in Files /\ e.client \in Clients
                               /\ held[e.file].id = e.id /\ e.file \in index[e.client]
                               /\ ~(e.file = f /\ e.client = c)
                               /\ e.file = f => d.id = e.id /\ e.client = d.client
    BY <1>0, <1>2, <2>1, TableFacts DEF InTurn, StillHeld, Unrecalled
  <2>3. StillHeld'
    BY <1>1, <1>2, <1>3, <1>4, <2>2 DEF StillHeld
  <2>4. Doing(t)' /\ RevokingAll(t)' /\ RevokingIndexed(t)'
    BY <1>1, <1>2, <1>3, <1>4, <1>5, <2>2 DEF Doing, RevokingAll, RevokingIndexed
  <2>5. ~replaced' => wronged' = {} /\ IndexTrue'
    <3> SUFFICES ASSUME ~replaced' PROVE wronged' = {} /\ IndexTrue'
      OBVIOUS
    <3>1. wronged = {} /\ IndexTrue
      BY <1>2, <2>1 DEF InTurn
    <3>2. \A b \in Clients : \A g \in index[b] : g \in Files /\ held[g] # NoDelegation /\ held[g].client = b
      BY <1>0, <1>2, <2>1, <3>1 DEF IndexTrue, AtIndex, DTypes
    <3>3. \A b : AtIndex(t, f, b)' <=> b = d.client
      BY <1>1, <1>2, <1>3, <1>5 DEF AtIndex
    <3> QED
      BY <1>2, <1>4, <3>1, <3>2, <3>3 DEF IndexTrue
  <2> QED
    BY <2>1, <2>3, <2>4, <2>5, AloneKeeps
<1> QED
  BY <1>6, <1>7

\* return_delegation puts a delegation of another client back.
LEMMA PutBackInTurn ==
  ASSUME SerialInv, NEW t \in Threads, PutBack(t)
  PROVE  Pending' /\ (~delegationOverlapped' => InTurn')
<1> DEFINE d == dloc[t].deleg
<1>0. DTypes /\ InHand /\ TableInv /\ Pending
  BY DEF SerialInv, TableInv
<1>1. /\ DGoto(t, "idle", DNoWork) /\ UNCHANGED <<index, out, recalled, wronged, replaced>> /\ dpc[t] = "put_back"
      /\ held' = [held EXCEPT ![d.file] = d]
  BY DEF PutBack, DReturn, dHistVars
<1>2. d \in Granted /\ d.file \in Files /\ d # NoDelegation
  BY <1>0, <1>1, NoDelegationFacts DEF InHand
<1>3. /\ dpc'[t] = "idle" /\ dloc'[t] = DNoWork
      /\ \A u \in Threads \ {t} : dpc'[u] = dpc[u] /\ dloc'[u] = dloc[u]
  BY <1>1, Alone
<1>4. held'[d.file] = d /\ \A f \in Files \ {d.file} : held'[f] = held[f]
  BY <1>0, <1>1, <1>2 DEF DTypes
<1>5. Pending'
  BY <1>0, <1>1, <1>3, <1>4 DEF Pending, Carries
<1>6. ASSUME ~delegationOverlapped' PROVE InTurn'
  <2>1. InTurn /\ \A u \in Threads \ {t} : dpc[u] = "idle" /\ dpc'[u] = "idle"
    BY <1>1, <1>6, Alone
  <2>2. held[d.file] = NoDelegation
    BY <1>1, <2>1 DEF InTurn, Doing
  <2>3. \A e \in Unrecalled : /\ e.file \in Files /\ e.file \in index[e.client]
                              /\ IF e.file = d.file THEN d.id = e.id ELSE held[e.file].id = e.id
    <3> SUFFICES ASSUME NEW e \in Unrecalled
                 PROVE  /\ e.file \in Files /\ e.file \in index[e.client]
                        /\ IF e.file = d.file THEN d.id = e.id ELSE held[e.file].id = e.id
      OBVIOUS
    <3>1. e \in out /\ e.id # 0 /\ e.file \in Files /\ e.file \in index[e.client]
          /\ (held[e.file].id = e.id \/ d.id = e.id)
      BY <1>0, <1>1, <2>1, TableFacts DEF InTurn, StillHeld, Unrecalled
    <3>2. d.id = e.id => e.file = d.file
      BY <1>0, <3>1, TableFacts
    <3> QED
      BY <2>2, <3>1, <3>2, NoDelegationFacts
  <2>4. StillHeld'
    BY <1>1, <1>4, <2>3 DEF StillHeld, Unrecalled
  <2>5. Doing(t)' /\ RevokingAll(t)' /\ RevokingIndexed(t)'
    BY <1>3 DEF Doing, RevokingAll, RevokingIndexed
  <2>6. ~replaced' => wronged' = {} /\ IndexTrue'
    <3> SUFFICES ASSUME ~replaced' PROVE wronged' = {} /\ IndexTrue'
      OBVIOUS
    <3>1. wronged = {} /\ IndexTrue
      BY <1>1, <2>1 DEF InTurn
    <3>2. \A c \in Clients : \A f \in index[c] :
            f \in Files /\ ((held[f] # NoDelegation /\ held[f].client = c) \/ (f = d.file /\ c = d.client))
      BY <1>0, <1>1, <2>1, <3>1 DEF IndexTrue, AtIndex, DTypes
    <3> QED
      BY <1>1, <1>2, <1>4, <2>2, <3>1, <3>2 DEF IndexTrue
  <2> QED
    BY <2>1, <2>4, <2>5, <2>6, AloneKeeps
<1> QED
  BY <1>5, <1>6

\* return_delegation drops the file from by_client.
LEMMA ReturnIndexInTurn ==
  ASSUME SerialInv, NEW t \in Threads, ReturnIndex(t)
  PROVE  Pending' /\ (~delegationOverlapped' => InTurn')
<1> DEFINE d == dloc[t].deleg
<1>0. DTypes /\ InHand /\ TableInv /\ Pending
  BY DEF SerialInv, TableInv
<1>1. /\ DGoto(t, "idle", DNoWork) /\ UNCHANGED <<held, out, recalled, wronged, replaced>> /\ dpc[t] = "return_index"
      /\ index' = [index EXCEPT ![d.client] = @ \ {d.file}]
  BY DEF ReturnIndex, Unindex, DReturn, dHistVars
<1>2. d.client \in Clients
  BY <1>0, <1>1, NoDelegationFacts DEF InHand
<1>3. /\ dpc'[t] = "idle" /\ dloc'[t] = DNoWork
      /\ \A u \in Threads \ {t} : dpc'[u] = dpc[u] /\ dloc'[u] = dloc[u]
  BY <1>1, Alone
<1>4. index'[d.client] = index[d.client] \ {d.file} /\ \A c \in Clients \ {d.client} : index'[c] = index[c]
  BY <1>0, <1>1, <1>2 DEF DTypes
<1>5. Pending'
  BY <1>0, <1>1, <1>3 DEF Pending, Carries
<1>6. ASSUME ~delegationOverlapped' PROVE InTurn'
  <2>1. InTurn /\ \A u \in Threads \ {t} : dpc[u] = "idle" /\ dpc'[u] = "idle"
    BY <1>1, <1>6, Alone
  <2>2. \A e \in Unrecalled : ~(e.file = d.file /\ e.client = d.client) /\ e.client \in Clients
    BY <1>0, <1>1, <2>1, TableFacts DEF InTurn, Doing, Unrecalled
  <2>3. \A e \in Unrecalled : held[e.file].id = e.id /\ e.file \in index[e.client]
    BY <1>1, <2>1 DEF InTurn, StillHeld
  <2>4. StillHeld'
    BY <1>1, <1>4, <2>2, <2>3 DEF StillHeld, Unrecalled
  <2>5. Doing(t)' /\ RevokingAll(t)' /\ RevokingIndexed(t)'
    BY <1>3 DEF Doing, RevokingAll, RevokingIndexed
  <2>6. ~replaced' => wronged' = {} /\ IndexTrue'
    <3> SUFFICES ASSUME ~replaced' PROVE wronged' = {} /\ IndexTrue'
      OBVIOUS
    <3>1. wronged = {} /\ IndexTrue
      BY <1>1, <2>1 DEF InTurn
    <3>2. \A c \in Clients : \A f \in index[c] :
            (held[f] # NoDelegation /\ held[f].client = c) \/ (f = d.file /\ c = d.client)
      BY <1>1, <2>1, <3>1 DEF IndexTrue, AtIndex
    <3> QED
      BY <1>1, <1>4, <3>1, <3>2 DEF IndexTrue
  <2> QED
    BY <2>1, <2>4, <2>5, <2>6, AloneKeeps
<1> QED
  BY <1>5, <1>6

\* revoke_all and cleanup_expired_recalls copy the list of files they go
\* through.
LEMMA StartRevokingInTurn ==
  ASSUME SerialInv, NEW t \in Threads, NEW files \in SUBSET Files, NEW c \in Clients \cup {NoClient},
         NEW lapsed \in BOOLEAN, StartRevoking(t, files, c, lapsed),
         c # NoClient => files = index[c] /\ c \in Clients,
         lapsed => files = {f \in Files : held[f].state = "RecallExpired"}
  PROVE  Pending' /\ (~delegationOverlapped' => InTurn')
<1> DEFINE work == [DNoWork EXCEPT !.todo = files, !.client = c, !.cleanup = lapsed]
<1>0. DTypes /\ TableInv /\ Pending
  BY DEF SerialInv, TableInv
<1>1. work.todo = files /\ work.client = c /\ work.cleanup = lapsed
  BY DEF DNoWork
<1>2. DGoto(t, "revoke", work) /\ UNCHANGED <<held, index, out, recalled, wronged, replaced>> /\ dpc[t] = "idle"
  BY DEF StartRevoking, dHistVars
<1> HIDE DEF work
<1>3. /\ dpc'[t] = "revoke" /\ dloc'[t] = work
      /\ \A u \in Threads \ {t} : dpc'[u] = dpc[u] /\ dloc'[u] = dloc[u]
  BY <1>2, Alone
<1>4. Pending'
  BY <1>0, <1>2, <1>3 DEF Pending, Carries
<1>5. ASSUME ~delegationOverlapped' PROVE InTurn'
  <2>1. InTurn /\ \A u \in Threads \ {t} : dpc[u] = "idle" /\ dpc'[u] = "idle"
    BY <1>2, <1>5, Alone
  <2>2. \A u \in Threads : dpc[u] = "idle"
    BY <1>2, <2>1
  <2>3. StillHeld'
    BY <1>2, <2>1, <2>2 DEF InTurn, StillHeld, Unrecalled
  <2>4. \A e \in Unrecalled' : e.file \in index[e.client]
    BY <1>2, <2>1 DEF InTurn, StillHeld, Unrecalled
  <2>5. Doing(t)' /\ RevokingAll(t)' /\ RevokingIndexed(t)'
    BY <1>1, <1>2, <1>3, <2>4 DEF Doing, RevokingAll, RevokingIndexed
  <2>6. ~replaced' => wronged' = {} /\ IndexTrue'
    BY <1>2, <2>1, <2>2 DEF InTurn, IndexTrue, AtIndex
  <2> QED
    BY <2>1, <2>3, <2>5, <2>6, AloneKeeps
<1> QED
  BY <1>4, <1>5

\* revoke takes the file's delegation out, whichever it is by now.
LEMMA RevokeTakeInTurn ==
  ASSUME SerialInv, NEW t \in Threads, NEW f \in Files, RevokeTake(t, f)
  PROVE  Pending' /\ (~delegationOverlapped' => InTurn')
<1> DEFINE d == held[f]
<1>0. DTypes /\ TableInv /\ Pending
  BY DEF SerialInv, TableInv
<1>1. /\ UNCHANGED index /\ dpc[t] = "revoke" /\ f \in dloc[t].todo /\ held' = [held EXCEPT ![f] = NoDelegation]
      /\ UNCHANGED <<recalled, replaced>>
  BY DEF RevokeTake, dHistVars
<1>2. held'[f] = NoDelegation /\ \A g \in Files \ {f} : held'[g] = held[g]
  BY <1>0, <1>1 DEF DTypes
<1>3. PICK label, work :
        /\ DGoto(t, label, work) /\ work.todo = dloc[t].todo \ {f}
        /\ work.client = dloc[t].client /\ work.cleanup = dloc[t].cleanup
        /\ IF d = NoDelegation
           THEN label = "revoke" /\ UNCHANGED <<out, wronged>>
           ELSE /\ label = "revoke_index" /\ work.deleg = d /\ out' = {e \in out : e.id # d.id}
                /\ Meant(t, d) => wronged' = wronged
  <2>1. CASE d = NoDelegation
    <3> DEFINE work == [dloc[t] EXCEPT !.todo = @ \ {f}]
    <3>1. work.todo = dloc[t].todo \ {f} /\ work.client = dloc[t].client /\ work.cleanup = dloc[t].cleanup
      BY <1>0 DEF DTypes, DWork
    <3>2. DGoto(t, "revoke", work) /\ UNCHANGED <<out, wronged>>
      BY <2>1 DEF RevokeTake, dHistVars
    <3> HIDE DEF work
    <3> QED
      BY <2>1, <3>1, <3>2
  <2>2. CASE d # NoDelegation
    <3> DEFINE work == [dloc[t] EXCEPT !.todo = @ \ {f}, !.deleg = d]
    <3>1. work.todo = dloc[t].todo \ {f} /\ work.client = dloc[t].client /\ work.cleanup = dloc[t].cleanup
          /\ work.deleg = d
      BY <1>0 DEF DTypes, DWork
    <3>2. DGoto(t, "revoke_index", work) /\ out' = {e \in out : e.id # d.id} /\ (Meant(t, d) => wronged' = wronged)
      BY <2>2 DEF RevokeTake
    <3> HIDE DEF work
    <3> QED
      BY <2>2, <3>1, <3>2
  <2> QED
    BY <2>1, <2>2
<1>4. /\ dpc'[t] = label /\ dloc'[t] = work
      /\ \A u \in Threads \ {t} : dpc'[u] = dpc[u] /\ dloc'[u] = dloc[u]
  BY <1>1, <1>3, Alone
<1>5. d # NoDelegation => d.file = f /\ d.id # 0
  BY <1>0, TableFacts
<1>6. Pending'
  BY <1>0, <1>1, <1>2, <1>3, <1>4, NoDelegationFacts DEF Pending, Carries
<1>7. ASSUME ~delegationOverlapped' PROVE InTurn'
  <2>1. InTurn /\ \A u \in Threads \ {t} : dpc[u] = "idle" /\ dpc'[u] = "idle"
    BY <1>1, <1>3, <1>7, Alone
  <2>2. \A e \in Unrecalled : held[e.file].id = e.id /\ e.file \in index[e.client] /\ e.file \in Files /\ e.id # 0
    BY <1>0, <1>1, <2>1, TableFacts DEF InTurn, StillHeld, Unrecalled
  <2>3. \A e \in Unrecalled' : e \in Unrecalled /\ e.file # f
    BY <1>1, <1>3, <2>2, NoDelegationFacts DEF Unrecalled
  <2>4. StillHeld'
    BY <1>1, <1>2, <2>2, <2>3 DEF StillHeld
  <2>5. Doing(t)'
    BY <1>3, <1>4, <1>5, <2>3 DEF Doing
  <2>6. RevokingAll(t)'
    <3>1. RevokingAll(t) /\ dloc[t].todo \subseteq Files
      BY <1>0, <2>1 DEF InTurn, DTypes, DWork
    <3> QED
      BY <1>1, <1>2, <1>3, <1>4, <2>3, <3>1 DEF RevokingAll
  <2>7. ~replaced' => wronged' = {} /\ IndexTrue' /\ RevokingIndexed(t)'
    <3> SUFFICES ASSUME ~replaced' PROVE wronged' = {} /\ IndexTrue' /\ RevokingIndexed(t)'
      OBVIOUS
    <3>1. wronged = {} /\ IndexTrue /\ RevokingIndexed(t) /\ RevokingAll(t)
      BY <1>1, <2>1 DEF InTurn
    <3>2. \A c \in Clients : \A g \in index[c] : g \in Files /\ held[g] # NoDelegation /\ held[g].client = c
      BY <1>0, <1>1, <2>1, <3>1 DEF IndexTrue, AtIndex, DTypes
    <3>3. wronged' = {}
      <4>1. dloc[t].client \in Clients \cup {NoClient}
        BY <1>0 DEF DTypes, DWork
      <4>2. d # NoDelegation => Meant(t, d)
        BY <1>1, <3>1, <3>2, <4>1 DEF RevokingIndexed, RevokingAll, Meant
      <4> QED
        BY <1>3, <3>1, <4>2
    <3>4. \A c : d # NoDelegation => (AtIndex(t, f, c)' <=> c = d.client)
      BY <1>3, <1>4, <1>5 DEF AtIndex
    <3>5. IndexTrue'
      BY <1>1, <1>2, <3>2, <3>4 DEF IndexTrue
    <3>6. RevokingIndexed(t)'
      BY <1>1, <1>3, <1>4, <3>1 DEF RevokingIndexed
    <3> QED
      BY <3>3, <3>5, <3>6
  <2> QED
    BY <2>1, <2>4, <2>5, <2>6, <2>7, AloneKeeps
<1> QED
  BY <1>6, <1>7

\* revoke drops the file from by_client.
LEMMA RevokeIndexInTurn ==
  ASSUME SerialInv, NEW t \in Threads, RevokeIndex(t)
  PROVE  Pending' /\ (~delegationOverlapped' => InTurn')
<1> DEFINE d == dloc[t].deleg
           work == [dloc[t] EXCEPT !.deleg = NoDelegation]
<1>0. DTypes /\ InHand /\ TableInv /\ Pending
  BY DEF SerialInv, TableInv
<1>1. /\ DGoto(t, "revoke", work) /\ UNCHANGED <<held, out, recalled, wronged, replaced>> /\ dpc[t] = "revoke_index"
      /\ index' = [index EXCEPT ![d.client] = @ \ {d.file}]
  BY DEF RevokeIndex, Unindex, dHistVars
<1>2. d.client \in Clients
  BY <1>0, <1>1, NoDelegationFacts DEF InHand
<1>3. work.todo = dloc[t].todo /\ work.client = dloc[t].client /\ work.cleanup = dloc[t].cleanup
      /\ work.client \in Clients \cup {NoClient}
  BY <1>0 DEF DTypes, DWork
<1> HIDE DEF work
<1>4. /\ dpc'[t] = "revoke" /\ dloc'[t] = work
      /\ \A u \in Threads \ {t} : dpc'[u] = dpc[u] /\ dloc'[u] = dloc[u]
  BY <1>1, Alone
<1>5. index'[d.client] = index[d.client] \ {d.file} /\ \A c \in Clients \ {d.client} : index'[c] = index[c]
  BY <1>0, <1>1, <1>2 DEF DTypes
<1>6. Pending'
  BY <1>0, <1>1, <1>4 DEF Pending, Carries
<1>7. ASSUME ~delegationOverlapped' PROVE InTurn'
  <2>1. InTurn /\ \A u \in Threads \ {t} : dpc[u] = "idle" /\ dpc'[u] = "idle"
    BY <1>1, <1>7, Alone
  <2>2. \A e \in Unrecalled : ~(e.file = d.file /\ e.client = d.client) /\ e.client \in Clients
    BY <1>0, <1>1, <2>1, TableFacts DEF InTurn, Doing, Unrecalled
  <2>3. \A e \in Unrecalled : held[e.file].id = e.id /\ e.file \in index[e.client]
    BY <1>1, <2>1 DEF InTurn, StillHeld
  <2>4. StillHeld'
    BY <1>1, <1>5, <2>2, <2>3 DEF StillHeld, Unrecalled
  <2>5. Doing(t)'
    BY <1>4 DEF Doing
  <2>6. RevokingAll(t)'
    BY <1>1, <1>3, <1>4, <2>1 DEF InTurn, RevokingAll, Unrecalled
  <2>7. ~replaced' => wronged' = {} /\ IndexTrue' /\ RevokingIndexed(t)'
    <3> SUFFICES ASSUME ~replaced' PROVE wronged' = {} /\ IndexTrue' /\ RevokingIndexed(t)'
      OBVIOUS
    <3>1. wronged = {} /\ IndexTrue /\ RevokingIndexed(t) /\ d.file \notin dloc[t].todo
      BY <1>1, <2>1 DEF InTurn, Doing
    <3>2. \A c \in Clients : \A f \in index[c] :
            (held[f] # NoDelegation /\ held[f].client = c) \/ (f = d.file /\ c = d.client)
      BY <1>1, <2>1, <3>1 DEF IndexTrue, AtIndex
    <3>3. IndexTrue'
      BY <1>1, <1>5, <3>1, <3>2 DEF IndexTrue
    <3>4. RevokingIndexed(t)'
      BY <1>1, <1>3, <1>4, <1>5, <3>1 DEF RevokingIndexed
    <3> QED
      BY <1>1, <3>1, <3>3, <3>4
  <2> QED
    BY <2>1, <2>4, <2>5, <2>6, <2>7, AloneKeeps
<1> QED
  BY <1>6, <1>7

\* The list of files is done.
LEMMA RevokeDoneInTurn ==
  ASSUME SerialInv, NEW t \in Threads, RevokeDone(t)
  PROVE  Pending' /\ (~delegationOverlapped' => InTurn')
<1>0. DTypes /\ TableInv /\ Pending
  BY DEF SerialInv, TableInv
<1>1. /\ DGoto(t, "idle", DNoWork) /\ UNCHANGED <<held, out, recalled, wronged, replaced>> /\ dpc[t] = "revoke"
      /\ dloc[t].todo = {}
      /\ index' = [c \in Clients |-> IF c = dloc[t].client THEN {} ELSE index[c]]
  BY DEF RevokeDone, DReturn, dHistVars
<1>2. \A c \in Clients : index'[c] = IF c = dloc[t].client THEN {} ELSE index[c]
  BY <1>1
<1>3. /\ dpc'[t] = "idle" /\ dloc'[t] = DNoWork
      /\ \A u \in Threads \ {t} : dpc'[u] = dpc[u] /\ dloc'[u] = dloc[u]
  BY <1>1, Alone
<1>4. Pending'
  BY <1>0, <1>1, <1>3 DEF Pending, Carries
<1>5. ASSUME ~delegationOverlapped' PROVE InTurn'
  <2>1. InTurn /\ \A u \in Threads \ {t} : dpc[u] = "idle" /\ dpc'[u] = "idle"
    BY <1>1, <1>5, Alone
  <2>2. \A e \in Unrecalled : held[e.file].id = e.id /\ e.file \in index[e.client] /\ e.client \in Clients
    BY <1>0, <1>1, <2>1, TableFacts DEF InTurn, StillHeld, Unrecalled
  <2>3. \A e \in Unrecalled : e.client # dloc[t].client
    BY <1>1, <2>1, <2>2, GatewayConstants DEF InTurn, RevokingAll
  <2>4. StillHeld'
    BY <1>1, <1>2, <2>2, <2>3 DEF StillHeld, Unrecalled
  <2>5. Doing(t)' /\ RevokingAll(t)' /\ RevokingIndexed(t)'
    BY <1>3 DEF Doing, RevokingAll, RevokingIndexed
  <2>6. ~replaced' => wronged' = {} /\ IndexTrue'
    BY <1>1, <1>2, <2>1 DEF InTurn, IndexTrue, AtIndex
  <2> QED
    BY <2>1, <2>4, <2>5, <2>6, AloneKeeps
<1> QED
  BY <1>4, <1>5

\* Every step keeps the serial invariant, one case per action.
LEMMA SerialPreserved == ASSUME SerialInv, [DelegationNext]_delegationVars PROVE SerialInv'
<1>0. TableInv'
  BY TablePreserved DEF SerialInv
<1> SUFFICES Pending' /\ (~delegationOverlapped' => InTurn')
  BY <1>0 DEF SerialInv
<1>1. CASE UNCHANGED delegationVars
  <2>1. UNCHANGED <<held, index, dpc, dloc, out, recalled, wronged, replaced, delegationOverlapped>>
    BY <1>1 DEF delegationVars, dHistVars
  <2> QED
    BY <2>1 DEF SerialInv, Pending, Carries, InTurn, OneCall, StillHeld, Unrecalled, Doing, RevokingAll,
       IndexTrue, AtIndex, RevokingIndexed
<1>2. ASSUME NEW t \in Threads, NEW f \in Files, Recall(t, f) PROVE Pending' /\ (~delegationOverlapped' => InTurn')
  BY <1>2, RecallInTurn DEF Recall
<1>3. ASSUME NEW f \in Files, RecallTimesOut(f) PROVE Pending' /\ (~delegationOverlapped' => InTurn')
  BY <1>3, RecallInTurn DEF RecallTimesOut, dHistVars
<1>4. ASSUME NEW t \in Threads, NEW f \in Files, Revoke(t, f) PROVE Pending' /\ (~delegationOverlapped' => InTurn')
  BY <1>4, StartRevokingInTurn DEF Revoke
<1>5. ASSUME NEW t \in Threads, NEW c \in Clients, RevokeAll(t, c)
      PROVE  Pending' /\ (~delegationOverlapped' => InTurn')
  <2>1. index[c] \in SUBSET Files
    BY DEF SerialInv, TableInv, DTypes
  <2> QED
    BY <1>5, <2>1, StartRevokingInTurn DEF RevokeAll
<1>6. ASSUME NEW t \in Threads, CleanupExpiredRecalls(t) PROVE Pending' /\ (~delegationOverlapped' => InTurn')
  BY <1>6, StartRevokingInTurn DEF CleanupExpiredRecalls
<1> QED
  BY <1>1, <1>2, <1>3, <1>4, <1>5, <1>6, GrantInTurn, GrantInsertInTurn, GrantIndexInTurn, ReturnTakeInTurn,
     PutBackInTurn, ReturnIndexInTurn, RevokeTakeInTurn, RevokeIndexInTurn, RevokeDoneInTurn
  DEF DelegationNext, DelegationCall, DelegationContinue

\* The serial invariant holds in every reachable state.
LEMMA SerialHolds == DelegationSpec => []SerialInv
BY SerialInitial, SerialPreserved, PTL DEF DelegationSpec

\* While calls come one after the other, a client keeps what was neither recalled
\* nor revoked, and its index leads there (grant, return_delegation, revoke_all).
THEOREM UnrecalledStays == DelegationSpec => []UnrecalledIsHeld
<1>1. SerialInv => UnrecalledIsHeld
  <2> SUFFICES ASSUME SerialInv, ~delegationOverlapped, DBusy = {}, NEW d \in out, d.id \notin recalled
               PROVE  held[d.file].id = d.id /\ d.file \in index[d.client]
    BY DEF UnrecalledIsHeld
  <2>1. StillHeld /\ d \in Unrecalled
    BY DEF SerialInv, InTurn, Unrecalled
  <2>2. \A t \in Threads : dpc[t] = "idle"
    BY DEF DBusy
  <2> QED
    BY <2>1, <2>2 DEF StillHeld
<1> QED
  BY <1>1, SerialHolds, PTL

\* revoke_all and cleanup_expired_recalls take nothing that was not meant for them,
\* while calls come one after the other and no grant replaces a delegation.
THEOREM RevokesMeant == DelegationSpec => []RevokesOnlyMeant
<1>1. SerialInv => RevokesOnlyMeant
  BY DEF SerialInv, InTurn, RevokesOnlyMeant
<1> QED
  BY <1>1, SerialHolds, PTL

-----------------------------------------------------------------------------
(* Sessions *)

SLabels == {"idle", "map", "destroy", "unmap", "open"}
SWork   == [session : 0 .. MaxSessions, client : Clients \cup {NoClient}, todo : SUBSET SessionIds]

STypes ==
  /\ session \in [SessionIds -> Clients \cup {NoClient}] /\ mapped \in [Clients -> 0 .. MaxSessions]
  /\ expired \subseteq SessionIds /\ nextId \in Nat \ {0}
  /\ spc \in [Threads -> SLabels] /\ sloc \in [Threads -> SWork]
  /\ reconnected \subseteq Clients /\ sessionOverlapped \in BOOLEAN
SInHand ==
  \A t \in Threads :
    /\ spc[t] \in {"map", "unmap"} => sloc[t].client \in Clients
    /\ spc[t] = "map" => sloc[t].session \in SessionIds /\ sloc[t].session < nextId

\* Ids are new, and a client with two sessions has reconnected.
Sessions ==
  /\ \A s \in SessionIds : s >= nextId => session[s] = NoClient
  /\ \A r, s \in SessionIds : r # s /\ session[r] = session[s] /\ Live(s) => session[s] \in reconnected

\* The mapping, but for the client that a call is about to map or to unmap.
Mapping ==
  /\ \A c \in Clients : mapped[c] # 0 =>
       session[mapped[c]] = c \/ \E t \in Threads : spc[t] = "unmap" /\ sloc[t].client = c
  /\ \A s \in SessionIds : Live(s) /\ session[s] \notin reconnected =>
       mapped[session[s]] = s \/ \E t \in Threads : spc[t] = "map" /\ sloc[t].session = s
  /\ \A t \in Threads : spc[t] = "map" => session[sloc[t].session] = sloc[t].client
  /\ \A t \in Threads : spc[t] = "unmap" => \A s \in SessionIds : session[s] = sloc[t].client => session[s] \in reconnected
SOneCall == \A t, u \in Threads : t # u => spc[t] = "idle" \/ spc[u] = "idle"

SessionInv == STypes /\ SInHand /\ Sessions /\ (~sessionOverlapped => SOneCall /\ Mapping)

\* The empty locals, and the ids.
LEMMA SNoWorkFacts == SNoWork \in SWork /\ 0 \notin SessionIds /\ SessionIds \subseteq Nat /\ NoClient \notin Clients
BY GatewayConstants, SessionConstants DEF SNoWork, SWork, SessionIds

\* No session at the start.
LEMMA SessionInitial == SessionInit => SessionInv
<1> SUFFICES ASSUME SessionInit PROVE SessionInv
  OBVIOUS
<1>1. STypes
  <2>1. 0 \in 0 .. MaxSessions
    BY SessionConstants
  <2>2. session \in [SessionIds -> Clients \cup {NoClient}] /\ mapped \in [Clients -> 0 .. MaxSessions]
    BY <2>1 DEF SessionInit
  <2>3. spc \in [Threads -> SLabels] /\ sloc \in [Threads -> SWork]
    BY SNoWorkFacts DEF SessionInit, SLabels
  <2>4. expired \subseteq SessionIds /\ nextId \in Nat \ {0} /\ reconnected \subseteq Clients
        /\ sessionOverlapped \in BOOLEAN
    <3>1. expired = {} /\ nextId = 1
      BY DEF SessionInit
    <3>2. reconnected = {} /\ sessionOverlapped = FALSE
      BY DEF SessionInit
    <3>3. nextId \in Nat \ {0}
      BY <3>1
    <3> QED
      BY <3>1, <3>2, <3>3, Zenon
  <2> QED
    BY <2>2, <2>3, <2>4 DEF STypes
<1>2. SInHand /\ Sessions /\ SOneCall /\ Mapping
  BY DEF SessionInit, SInHand, Sessions, SOneCall, Mapping, Live
<1> QED
  BY <1>1, <1>2 DEF SessionInv

\* A thread inside a call is alone, unless calls overlapped.
LEMMA SAlone ==
  ASSUME SessionInv, NEW t \in Threads, NEW label, NEW work, SGoto(t, label, work),
         spc[t] # "idle" \/ label # "idle"
  PROVE  /\ spc'[t] = label /\ sloc'[t] = work
         /\ \A u \in Threads \ {t} : spc'[u] = spc[u] /\ sloc'[u] = sloc[u]
         /\ label \in SLabels /\ work \in SWork =>
              spc' \in [Threads -> SLabels] /\ sloc' \in [Threads -> SWork] /\ sessionOverlapped' \in BOOLEAN
         /\ ~sessionOverlapped' => SOneCall' /\ Mapping /\ \A u \in Threads \ {t} : spc[u] = "idle"
<1>1. STypes
  BY DEF SessionInv
<1>2. /\ spc' = [spc EXCEPT ![t] = label] /\ sloc' = [sloc EXCEPT ![t] = work]
      /\ sessionOverlapped' = (sessionOverlapped \/ (label # "idle" /\ SBusy \ {t} # {}))
  BY DEF SGoto
<1>3. spc'[t] = label /\ sloc'[t] = work /\ \A u \in Threads \ {t} : spc'[u] = spc[u] /\ sloc'[u] = sloc[u]
  BY <1>1, <1>2 DEF STypes
<1>4. ASSUME ~sessionOverlapped' PROVE Mapping /\ \A u \in Threads \ {t} : spc[u] = "idle"
  BY <1>2, <1>4 DEF SessionInv, SOneCall, SBusy
<1>5. ASSUME ~sessionOverlapped' PROVE SOneCall'
  BY <1>3, <1>4, <1>5 DEF SOneCall
<1> QED
  BY <1>1, <1>2, <1>3, <1>4, <1>5 DEF STypes

\* A step that leaves the sessions and the mapping alone, and the thread at no
\* client that it has to map or unmap.
LEMMA SQuiet ==
  ASSUME SessionInv, NEW t \in Threads, spc[t] \notin {"map", "unmap"}, NEW label \in {"idle", "destroy", "open"},
         NEW work \in SWork, SGoto(t, label, work), spc[t] # "idle" \/ label # "idle",
         expired' \subseteq SessionIds, UNCHANGED <<session, mapped, nextId, reconnected>>
  PROVE  SessionInv'
<1>0. STypes /\ SInHand /\ Sessions
  BY DEF SessionInv
<1>1. /\ spc'[t] = label /\ sloc'[t] = work
      /\ \A u \in Threads \ {t} : spc'[u] = spc[u] /\ sloc'[u] = sloc[u]
  BY SAlone
<1>2. spc' \in [Threads -> SLabels] /\ sloc' \in [Threads -> SWork] /\ sessionOverlapped' \in BOOLEAN
  BY SAlone DEF SLabels
<1>3. STypes' /\ SInHand' /\ Sessions'
  BY <1>0, <1>1, <1>2 DEF STypes, SInHand, Sessions, Live
<1>4. ASSUME ~sessionOverlapped' PROVE SOneCall' /\ Mapping'
  <2>1. SOneCall' /\ Mapping /\ \A u \in Threads \ {t} : spc[u] = "idle"
    BY <1>4, SAlone
  <2> QED
    BY <1>1, <2>1 DEF Mapping, Live
<1> QED
  BY <1>3, <1>4 DEF SessionInv

\* create_session inserts the session; client_to_session follows in a second
\* step.
LEMMA CreateStays == ASSUME SessionInv, NEW t \in Threads, NEW c \in Clients, CreateSession(t, c) PROVE SessionInv'
<1> DEFINE work == [SNoWork EXCEPT !.session = nextId, !.client = c]
<1>0. STypes /\ SInHand /\ Sessions
  BY DEF SessionInv
<1>1. /\ spc[t] = "idle" /\ nextId <= MaxSessions /\ session' = [session EXCEPT ![nextId] = c] /\ nextId' = nextId + 1
      /\ SGoto(t, "map", work) /\ UNCHANGED <<expired, mapped>>
      /\ reconnected' = reconnected \cup {d \in {c} : \E s \in SessionIds : session[s] = d}
  BY DEF CreateSession
<1>2. nextId \in SessionIds /\ nextId \in 0 .. MaxSessions
  BY <1>0, <1>1, SessionConstants DEF STypes, SessionIds
<1>3. work \in SWork /\ work.session = nextId /\ work.client = c
  BY <1>2 DEF SNoWork, SWork
<1> HIDE DEF work
<1>4. /\ spc'[t] = "map" /\ sloc'[t] = work
      /\ \A u \in Threads \ {t} : spc'[u] = spc[u] /\ sloc'[u] = sloc[u]
  BY <1>1, SAlone
<1>5. spc' \in [Threads -> SLabels] /\ sloc' \in [Threads -> SWork] /\ sessionOverlapped' \in BOOLEAN
  BY <1>1, <1>3, SAlone DEF SLabels
<1>6. session'[nextId] = c /\ \A s \in SessionIds \ {nextId} : session'[s] = session[s]
  BY <1>0, <1>1, <1>2 DEF STypes
<1>7. session[nextId] = NoClient
  BY <1>0, <1>2, SNoWorkFacts DEF Sessions
<1>8. STypes' /\ SInHand'
  <2>1. STypes'
    BY <1>0, <1>1, <1>2, <1>5 DEF STypes
  <2>2. \A u \in Threads : spc[u] = "map" => sloc[u].session \in SessionIds /\ sloc[u].session < nextId'
    <3> SUFFICES ASSUME NEW u \in Threads, spc[u] = "map"
                 PROVE  sloc[u].session \in SessionIds /\ sloc[u].session < nextId'
      OBVIOUS
    <3> DEFINE r == sloc[u].session
    <3>1. r \in SessionIds /\ r < nextId /\ r \in Nat /\ nextId \in Nat /\ nextId' = nextId + 1
      BY <1>0, <1>1, SNoWorkFacts DEF STypes, SInHand
    <3> HIDE DEF r
    <3>2. r \in SessionIds /\ r < nextId'
      BY <3>1
    <3> QED
      BY <3>2 DEF r
  <2>3. nextId < nextId'
    BY <1>0, <1>1 DEF STypes
  <2>4. SInHand'
    BY <1>0, <1>2, <1>3, <1>4, <2>2, <2>3 DEF SInHand
  <2> QED
    BY <2>1, <2>4
<1>9. Sessions'
  <2>1. \A s \in SessionIds : s >= nextId' => session'[s] = NoClient
    BY <1>0, <1>1, <1>6, SNoWorkFacts DEF Sessions, STypes
  <2>2. ASSUME NEW r \in SessionIds, NEW s \in SessionIds, r # s, session'[r] = session'[s], session'[s] # NoClient
        PROVE  session'[s] \in reconnected'
    BY <1>0, <1>1, <1>6, <2>2 DEF Sessions, Live
  <2> QED
    BY <2>1, <2>2 DEF Sessions, Live
<1>10. ASSUME ~sessionOverlapped' PROVE SOneCall' /\ Mapping'
  <2>1. SOneCall' /\ Mapping /\ \A u \in Threads \ {t} : spc[u] = "idle"
    BY <1>1, <1>10, SAlone
  <2>2. \A d \in Clients : mapped[d] # 0 => session[mapped[d]] = d /\ mapped[d] # nextId /\ mapped[d] \in SessionIds
    <3> SUFFICES ASSUME NEW d \in Clients, mapped[d] # 0
                 PROVE  session[mapped[d]] = d /\ mapped[d] # nextId /\ mapped[d] \in SessionIds
      OBVIOUS
    <3>1. mapped[d] \in SessionIds
      BY <1>0, SessionConstants DEF STypes, SessionIds
    <3> QED
      BY <1>1, <1>7, <2>1, <3>1, SNoWorkFacts DEF Mapping
  <2>3. \A s \in SessionIds : Live(s) /\ session[s] \notin reconnected => mapped[session[s]] = s
    BY <1>1, <2>1 DEF Mapping
  <2>4. /\ \A d \in Clients : mapped'[d] # 0 => session'[mapped'[d]] = d
        /\ \A s \in SessionIds \ {nextId} : Live(s)' /\ session'[s] \notin reconnected' => mapped'[session'[s]] = s
    BY <1>1, <1>6, <2>2, <2>3 DEF Live
  <2>5. /\ \A u \in Threads : spc'[u] = "map" => u = t
        /\ \A u \in Threads : spc'[u] # "unmap"
    BY <1>4, <2>1
  <2> QED
    BY <1>3, <1>4, <1>6, <2>1, <2>4, <2>5 DEF Mapping
<1> QED
  BY <1>8, <1>9, <1>10 DEF SessionInv

\* create_session maps the client to the new session.
LEMMA CreateMapStays == ASSUME SessionInv, NEW t \in Threads, CreateMap(t) PROVE SessionInv'
<1> DEFINE c == sloc[t].client  s == sloc[t].session
<1>0. STypes /\ SInHand /\ Sessions
  BY DEF SessionInv
<1>1. /\ spc[t] = "map" /\ mapped' = [mapped EXCEPT ![c] = s] /\ SGoto(t, "idle", SNoWork)
      /\ UNCHANGED <<session, expired, nextId, reconnected>>
  BY DEF CreateMap, SReturn
<1>2. c \in Clients /\ s \in SessionIds /\ s \in 0 .. MaxSessions
  BY <1>0, <1>1 DEF SInHand, STypes, SWork
<1>3. /\ spc'[t] = "idle" /\ sloc'[t] = SNoWork
      /\ \A u \in Threads \ {t} : spc'[u] = spc[u] /\ sloc'[u] = sloc[u]
  BY <1>1, SAlone
<1>4. spc' \in [Threads -> SLabels] /\ sloc' \in [Threads -> SWork] /\ sessionOverlapped' \in BOOLEAN
  BY <1>1, SAlone, SNoWorkFacts DEF SLabels
<1>5. STypes' /\ SInHand' /\ Sessions'
  BY <1>0, <1>1, <1>2, <1>3, <1>4 DEF STypes, SInHand, Sessions, Live
<1>6. mapped'[c] = s /\ \A d \in Clients \ {c} : mapped'[d] = mapped[d]
  BY <1>0, <1>1, <1>2 DEF STypes
<1>7. ASSUME ~sessionOverlapped' PROVE SOneCall' /\ Mapping'
  <2>1. SOneCall' /\ Mapping /\ \A u \in Threads \ {t} : spc[u] = "idle"
    BY <1>1, <1>7, SAlone
  <2>2. session[s] = c /\ \A d \in Clients : mapped[d] # 0 => session[mapped[d]] = d
    BY <1>1, <2>1 DEF Mapping
  <2>3. ASSUME NEW r \in SessionIds, session[r] # NoClient, session[r] \notin reconnected
        PROVE  mapped'[session[r]] = r
    <3>1. session[r] \in Clients
      BY <1>0, <2>3 DEF STypes
    <3>2. r = s \/ (r # s /\ session[r] # c)
      BY <1>0, <1>2, <2>2, <2>3 DEF Sessions, Live
    <3>3. r # s => mapped[session[r]] = r
      BY <1>1, <2>1, <2>3 DEF Mapping, Live
    <3> QED
      BY <1>6, <2>2, <3>1, <3>2, <3>3
  <2>4. \A u \in Threads : spc'[u] = "idle"
    BY <1>3, <2>1
  <2> QED
    BY <1>1, <1>6, <2>1, <2>2, <2>3, <2>4 DEF Mapping, Live
<1> QED
  BY <1>5, <1>7 DEF SessionInv

\* destroy_session removes the session before its mapping.
LEMMA DestroyRemoveStays ==
  ASSUME SessionInv, NEW t \in Threads, NEW s \in SessionIds, DestroyRemove(t, s) PROVE SessionInv'
<1> DEFINE label == IF Live(s) THEN "unmap" ELSE "destroy"
           work == [sloc[t] EXCEPT !.client = session[s], !.todo = @ \ {s}]
<1>0. STypes /\ SInHand /\ Sessions
  BY DEF SessionInv
<1>1. /\ spc[t] = "destroy" /\ session' = [session EXCEPT ![s] = NoClient] /\ SGoto(t, label, work)
      /\ expired' = expired \ {s} /\ UNCHANGED <<mapped, nextId, reconnected>>
  BY DEF DestroyRemove
<1>2. work \in SWork /\ work.client = session[s] /\ label \in SLabels \ {"map", "idle"}
      /\ (label = "unmap" <=> session[s] # NoClient)
  BY <1>0 DEF STypes, SWork, SLabels, Live
<1> HIDE DEF work, label
<1>3. /\ spc'[t] = label /\ sloc'[t] = work
      /\ \A u \in Threads \ {t} : spc'[u] = spc[u] /\ sloc'[u] = sloc[u]
  BY <1>1, SAlone
<1>4. spc' \in [Threads -> SLabels] /\ sloc' \in [Threads -> SWork] /\ sessionOverlapped' \in BOOLEAN
  BY <1>1, <1>2, SAlone
<1>5. session'[s] = NoClient /\ \A r \in SessionIds \ {s} : session'[r] = session[r]
  BY <1>0, <1>1 DEF STypes
<1>6. STypes' /\ SInHand'
  BY <1>0, <1>1, <1>2, <1>3, <1>4 DEF STypes, SInHand
<1>7. Sessions'
  BY <1>0, <1>1, <1>5 DEF Sessions, Live
<1>8. ASSUME ~sessionOverlapped' PROVE SOneCall' /\ Mapping'
  <2>1. SOneCall' /\ Mapping /\ \A u \in Threads \ {t} : spc[u] = "idle"
    BY <1>1, <1>8, SAlone
  <2>2. \A c \in Clients : mapped[c] # 0 => session[mapped[c]] = c /\ mapped[c] \in SessionIds
    <3>1. \A c \in Clients : mapped[c] # 0 => mapped[c] \in SessionIds
      BY <1>0, SessionConstants DEF STypes, SessionIds
    <3> QED
      BY <1>1, <2>1, <3>1 DEF Mapping
  <2>3. \A c \in Clients : mapped'[c] # 0 => session'[mapped'[c]] = c \/ (spc'[t] = "unmap" /\ sloc'[t].client = c)
    BY <1>1, <1>2, <1>3, <1>5, <2>2, SNoWorkFacts
  <2>4. \A r \in SessionIds : Live(r)' /\ session'[r] \notin reconnected' => mapped'[session'[r]] = r
    BY <1>1, <1>5, <2>1 DEF Mapping, Live
  <2>5. \A u \in Threads : spc'[u] # "map" /\ (spc'[u] = "unmap" => u = t)
    BY <1>2, <1>3, <2>1
  <2>6. spc'[t] = "unmap" => \A r \in SessionIds : session'[r] = sloc'[t].client => session'[r] \in reconnected'
    BY <1>0, <1>1, <1>2, <1>3, <1>5 DEF Sessions, Live
  <2> QED
    BY <2>1, <2>3, <2>4, <2>5, <2>6 DEF Mapping
<1> QED
  BY <1>6, <1>7, <1>8 DEF SessionInv

\* destroy_session removes the mapping of the client.
LEMMA DestroyUnmapStays == ASSUME SessionInv, NEW t \in Threads, DestroyUnmap(t) PROVE SessionInv'
<1> DEFINE c == sloc[t].client
           work == [sloc[t] EXCEPT !.client = NoClient]
<1>0. STypes /\ SInHand /\ Sessions
  BY DEF SessionInv
<1>1. /\ spc[t] = "unmap" /\ mapped' = [mapped EXCEPT ![c] = 0] /\ SGoto(t, "destroy", work)
      /\ UNCHANGED <<session, expired, nextId, reconnected>>
  BY DEF DestroyUnmap
<1>2. work \in SWork /\ c \in Clients /\ 0 \in 0 .. MaxSessions
  BY <1>0, <1>1, SessionConstants DEF STypes, SWork, SInHand
<1> HIDE DEF work
<1>3. /\ spc'[t] = "destroy" /\ sloc'[t] = work
      /\ \A u \in Threads \ {t} : spc'[u] = spc[u] /\ sloc'[u] = sloc[u]
  BY <1>1, SAlone
<1>4. spc' \in [Threads -> SLabels] /\ sloc' \in [Threads -> SWork] /\ sessionOverlapped' \in BOOLEAN
  BY <1>1, <1>2, SAlone DEF SLabels
<1>5. mapped'[c] = 0 /\ \A d \in Clients \ {c} : mapped'[d] = mapped[d]
  BY <1>0, <1>1, <1>2 DEF STypes
<1>6. STypes' /\ SInHand' /\ Sessions'
  BY <1>0, <1>1, <1>2, <1>3, <1>4 DEF STypes, SInHand, Sessions, Live
<1>7. ASSUME ~sessionOverlapped' PROVE SOneCall' /\ Mapping'
  <2>1. SOneCall' /\ Mapping /\ \A u \in Threads \ {t} : spc[u] = "idle"
    BY <1>1, <1>7, SAlone
  <2>2. \A d \in Clients : mapped'[d] # 0 => session[mapped'[d]] = d
    BY <1>1, <1>5, <2>1 DEF Mapping
  <2>3. \A r \in SessionIds : session[r] # NoClient /\ session[r] \notin reconnected => mapped'[session[r]] = r
    BY <1>0, <1>1, <1>5, <2>1 DEF Mapping, Live, STypes
  <2>4. \A u \in Threads : spc'[u] \notin {"map", "unmap"}
    BY <1>3, <2>1
  <2> QED
    BY <1>1, <2>1, <2>2, <2>3, <2>4 DEF Mapping, Live
<1> QED
  BY <1>6, <1>7 DEF SessionInv

\* Every step keeps the invariant, one case per action.
LEMMA SessionPreserved == ASSUME SessionInv, [SessionNext]_sessionVars PROVE SessionInv'
<1>0. STypes
  BY DEF SessionInv
<1>1. ASSUME UNCHANGED <<session, mapped, nextId, spc, sloc, reconnected, sessionOverlapped>>, expired' \subseteq SessionIds
      PROVE  SessionInv'
  BY <1>1 DEF SessionInv, STypes, SInHand, Sessions, Mapping, SOneCall, Live
<1>2. ASSUME NEW t \in Threads, NEW ids \in SUBSET SessionIds, StartDestroying(t, ids) PROVE SessionInv'
  <2> DEFINE work == [SNoWork EXCEPT !.todo = ids]
  <2>1. work \in SWork
    BY SNoWorkFacts DEF SWork
  <2>2. /\ SGoto(t, "destroy", work) /\ spc[t] = "idle" /\ UNCHANGED <<session, mapped, nextId, reconnected, expired>>
    BY <1>2 DEF StartDestroying
  <2> HIDE DEF work
  <2> QED
    BY <1>0, <2>1, <2>2, SQuiet DEF STypes
<1>3. ASSUME NEW t \in Threads, NEW s \in SessionIds, OpenCheck(t, s) PROVE SessionInv'
  <2> DEFINE work == [SNoWork EXCEPT !.session = s]
  <2>1. work \in SWork
    BY SNoWorkFacts, SessionConstants DEF SWork, SessionIds
  <2>2. /\ SGoto(t, "open", work) /\ spc[t] = "idle" /\ UNCHANGED <<session, mapped, nextId, reconnected, expired>>
    BY <1>3 DEF OpenCheck
  <2> HIDE DEF work
  <2> QED
    BY <1>0, <2>1, <2>2, SQuiet DEF STypes
<1>4. ASSUME NEW t \in Threads, OpenFile(t) \/ DestroyDone(t) PROVE SessionInv'
  <2>1. /\ SGoto(t, "idle", SNoWork) /\ spc[t] \in {"open", "destroy"} /\ UNCHANGED <<session, mapped, nextId, reconnected>>
        /\ expired' \subseteq expired
    BY <1>4 DEF OpenFile, DestroyDone, SReturn
  <2>2. expired' \subseteq SessionIds
    BY <1>0, <2>1 DEF STypes
  <2> QED
    BY <2>1, <2>2, SQuiet, SNoWorkFacts
<1>5. ASSUME NEW t \in Threads, NEW s \in SessionIds, NEW f \in FileIds,
             CloseFile(t, s, f) \/ AddLock(t, s, f) \/ RemoveLock(t, s, f)
      PROVE  SessionInv'
  BY <1>0, <1>1, <1>5 DEF CloseFile, AddLock, RemoveLock, STypes
<1>6. ASSUME NEW s \in SessionIds, Expire(s) PROVE SessionInv'
  BY <1>0, <1>1, <1>6 DEF Expire, STypes
<1>7. CASE UNCHANGED sessionVars
  BY <1>0, <1>1, <1>7 DEF sessionVars, sHistVars, STypes
<1>8. ASSUME NEW t \in Threads, NEW s \in SessionIds, DestroySession(t, s) \/ GetSession(t, s) PROVE SessionInv'
  BY <1>2, <1>8 DEF DestroySession, GetSession
<1>9. ASSUME NEW t \in Threads, ExpireIdleSessions(t) PROVE SessionInv'
  <2>1. {s \in expired : Live(s)} \in SUBSET SessionIds
    BY <1>0 DEF STypes
  <2> QED
    BY <1>2, <1>9, <2>1 DEF ExpireIdleSessions
<1> QED
  BY <1>3, <1>4, <1>5, <1>6, <1>7, <1>8, <1>9, CreateStays, CreateMapStays, DestroyRemoveStays, DestroyUnmapStays
  DEF SessionNext, SessionCall, SessionContinue

\* While calls come one after the other, the client mapping is exact between them
\* (create_session, destroy_session), for every number of sessions and clients.
THEOREM ClientsFindSessions == SessionSpec => []ClientFindsSession
<1>1. SessionInv => ClientFindsSession
  BY DEF SessionInv, Mapping, ClientFindsSession, SBusy
<1> QED
  BY <1>1, SessionInitial, SessionPreserved, PTL DEF SessionSpec

-----------------------------------------------------------------------------
(* Leases *)

Modes == {"READ", "WRITE", "HANDLE"}
LRecords == [live : BOOLEAN, state : SUBSET Modes, files : SUBSET Files, pending : BOOLEAN,
             breakTo : SUBSET Modes, expired : BOOLEAN]
LWork == [key : Keys \cup {NoKey}, want : SUBSET Modes, granted : SUBSET Modes, files : SUBSET Files,
          todo : SUBSET Files, file : Files \cup {"none"}, keys : SUBSET Keys, other : Keys \cup {NoKey},
          breakTo : SUBSET Modes]
Scanning == {"files", "keys", "break", "insert"}
Indexing == {"index_client", "index_files"}
Unindexing == {"unindex_client", "unindex_files"}
LLabels == {"idle", "release"} \cup Scanning \cup Indexing \cup Unindexing

LTypes ==
  /\ lease \in [Keys -> LRecords]
  /\ byFile \in [Files -> SUBSET Keys] /\ byClient \in [Clients -> SUBSET Keys]
  /\ lpc \in [Threads -> LLabels] /\ lloc \in [Threads -> LWork]
  /\ refiled \subseteq Keys /\ leaseOverlapped \in BOOLEAN

\* A key without a lease has no state and no file, and no break leaves write caching.
Records ==
  \A k \in Keys : /\ ~lease[k].live => lease[k].files = {} /\ lease[k].state = {}
                  /\ lease[k].pending => "WRITE" \notin lease[k].breakTo

LInHand ==
  \A t \in Threads :
    /\ lpc[t] \in Scanning \cup Indexing \cup Unindexing => lloc[t].key \in Keys
    /\ lpc[t] = "break" => lloc[t].other \in Keys /\ "WRITE" \notin lloc[t].breakTo
    /\ lpc[t] \in Scanning => lloc[t].granted \subseteq lloc[t].want

(* Calls that come one after the other *)

LOneCall == \A t, u \in Threads : t # u => lpc[t] = "idle" \/ lpc[u] = "idle"

\* Of two leases in conflict the one with write caching was told to give it up.
Yields(j, k) == "WRITE" \in lease[j].state /\ "WRITE" \notin lease[k].state /\ lease[j].pending
Told ==
  \A j, k \in Keys \ refiled :
    (Sharing(j, k) /\ LConflictsWith(lease[j].state, lease[k].state)) => Yields(j, k) \/ Yields(k, j)

\* by_file leads to every lease, but for the one a request has yet to index.
Filed ==
  \A k \in Keys \ refiled : \A f \in lease[k].files :
    \/ k \in byFile[f]
    \/ \E t \in Threads : /\ lpc[t] \in Indexing /\ lloc[t].key = k
                          /\ lpc[t] = "index_files" => f \in lloc[t].todo

\* What a request has seen to on its way through the leases on its files.
Seen(t, j) ==
  lease[j].live /\ LConflictsWith(lease[j].state, lloc[t].want) =>
    "WRITE" \notin lloc[t].granted /\ lease[j].pending
Scanned(t) ==
  lpc[t] \in Scanning =>
    \A f \in lloc[t].files : \A j \in byFile[f] \ {lloc[t].key} :
      \/ f \in lloc[t].todo /\ lpc[t] # "insert"
      \/ lpc[t] \in {"keys", "break"} /\ f = lloc[t].file /\ j \in lloc[t].keys
      \/ lpc[t] = "break" /\ j = lloc[t].other /\ "WRITE" \notin lloc[t].granted
      \/ Seen(t, j)
KeyFree(t) ==
  /\ lpc[t] \in {"insert"} \cup Unindexing => ~lease[lloc[t].key].live
  /\ lpc[t] = "index_client" => lease[lloc[t].key].files \subseteq lloc[t].files

LInTurn == LOneCall /\ Told /\ Filed /\ \A t \in Threads : Scanned(t) /\ KeyFree(t)

LeaseInv == LTypes /\ Records /\ LInHand /\ (~leaseOverlapped => LInTurn)

\* The empty locals and the empty lease.
LEMMA LNoWorkFacts ==
  /\ LNoWork \in LWork /\ LNoWork.keys = {} /\ LNoWork.key = NoKey
  /\ NoLease \in LRecords /\ ~NoLease.live /\ NoLease.files = {} /\ NoLease.state = {} /\ ~NoLease.pending
BY DEF LNoWork, LWork, NoLease, LRecords, Modes

\* No lease at the start.
LEMMA LeaseInitial == LeaseInit => LeaseInv
<1> SUFFICES ASSUME LeaseInit PROVE LeaseInv
  OBVIOUS
<1>1. LTypes
  <2>1. lease \in [Keys -> LRecords] /\ lloc \in [Threads -> LWork]
    BY LNoWorkFacts DEF LeaseInit
  <2>2. byFile \in [Files -> SUBSET Keys] /\ byClient \in [Clients -> SUBSET Keys] /\ lpc \in [Threads -> LLabels]
    BY DEF LeaseInit, LLabels
  <2>3. refiled = {} /\ leaseOverlapped = FALSE
    BY DEF LeaseInit
  <2> QED
    BY <2>1, <2>2, <2>3 DEF LTypes
<1>2. \A k \in Keys : lease[k] = NoLease
  BY DEF LeaseInit
<1>3. \A t \in Threads : lpc[t] = "idle"
  BY DEF LeaseInit
<1>4. Records /\ LInHand
  BY <1>2, <1>3, LNoWorkFacts DEF Records, LInHand, Scanning, Indexing, Unindexing
<1>5. LOneCall /\ Told /\ Filed
  BY <1>2, <1>3, LNoWorkFacts DEF LOneCall, Told, Filed, Sharing
<1>6. \A t \in Threads : Scanned(t) /\ KeyFree(t)
  BY <1>3 DEF Scanned, KeyFree, Scanning, Unindexing
<1> QED
  BY <1>1, <1>4, <1>5, <1>6 DEF LeaseInv, LInTurn

\* A thread inside a call is alone, unless calls overlapped.
LEMMA LAlone ==
  ASSUME LeaseInv, NEW t \in Threads, NEW label, NEW work, LGoto(t, label, work),
         lpc[t] # "idle" \/ label # "idle"
  PROVE  /\ lpc'[t] = label /\ lloc'[t] = work
         /\ \A u \in Threads \ {t} : lpc'[u] = lpc[u] /\ lloc'[u] = lloc[u]
         /\ label \in LLabels /\ work \in LWork =>
              lpc' \in [Threads -> LLabels] /\ lloc' \in [Threads -> LWork] /\ leaseOverlapped' \in BOOLEAN
         /\ ~leaseOverlapped' => LInTurn /\ \A u \in Threads \ {t} : lpc[u] = "idle" /\ lpc'[u] = "idle"
<1>1. LTypes
  BY DEF LeaseInv
<1>2. /\ lpc' = [lpc EXCEPT ![t] = label] /\ lloc' = [lloc EXCEPT ![t] = work]
      /\ leaseOverlapped' = (leaseOverlapped \/ (label # "idle" /\ LBusy \ {t} # {}))
  BY DEF LGoto
<1>3. lpc'[t] = label /\ lloc'[t] = work /\ \A u \in Threads \ {t} : lpc'[u] = lpc[u] /\ lloc'[u] = lloc[u]
  BY <1>1, <1>2 DEF LTypes
<1>4. ASSUME ~leaseOverlapped' PROVE LInTurn /\ \A u \in Threads \ {t} : lpc[u] = "idle"
  BY <1>2, <1>4 DEF LeaseInv, LInTurn, LOneCall, LBusy
<1> QED
  BY <1>1, <1>2, <1>3, <1>4 DEF LTypes

\* It is enough to look at the thread that takes the step.
LEMMA LAloneKeeps ==
  ASSUME NEW t \in Threads, \A u \in Threads \ {t} : lpc'[u] = "idle", Told', Filed', Scanned(t)', KeyFree(t)'
  PROVE  LInTurn'
<1>1. LOneCall'
  BY DEF LOneCall
<1>2. \A u \in Threads \ {t} : Scanned(u)' /\ KeyFree(u)'
  BY DEF Scanned, KeyFree, Scanning, Unindexing
<1> QED
  BY <1>1, <1>2 DEF LInTurn

\* A step of one thread that leaves the leases and by_file alone.
LEMMA LQuiet ==
  ASSUME LeaseInv, NEW t \in Threads, NEW label \in LLabels, NEW work \in LWork, LGoto(t, label, work),
         lpc[t] # "idle" \/ label # "idle",
         UNCHANGED <<lease, byFile, refiled>>, byClient' \in [Clients -> SUBSET Keys],
         label \in Scanning \cup Indexing \cup Unindexing => work.key \in Keys,
         label = "break" => work.other \in Keys /\ "WRITE" \notin work.breakTo,
         label \in Scanning => work.granted \subseteq work.want,
         (~leaseOverlapped' /\ LInTurn) =>
           Scanned(t)' /\ KeyFree(t)' /\ (lpc[t] \in Indexing => Filed')
  PROVE  LeaseInv'
<1>0. LTypes /\ Records /\ LInHand
  BY DEF LeaseInv
<1>1. /\ lpc'[t] = label /\ lloc'[t] = work
      /\ \A u \in Threads \ {t} : lpc'[u] = lpc[u] /\ lloc'[u] = lloc[u]
      /\ lpc' \in [Threads -> LLabels] /\ lloc' \in [Threads -> LWork] /\ leaseOverlapped' \in BOOLEAN
  BY LAlone
<1>2. LTypes' /\ Records'
  BY <1>0, <1>1 DEF LTypes, Records
<1>3. LInHand'
  BY <1>0, <1>1 DEF LInHand
<1>4. ASSUME ~leaseOverlapped' PROVE LInTurn'
  <2>1. LInTurn /\ \A u \in Threads \ {t} : lpc[u] = "idle" /\ lpc'[u] = "idle"
    BY <1>4, LAlone
  <2>2. Told'
    BY <2>1 DEF LInTurn, Told, Sharing, Yields
  <2>3. ASSUME lpc[t] \notin Indexing PROVE Filed'
    BY <2>1, <2>3 DEF LInTurn, Filed, Indexing
  <2> QED
    BY <1>4, <2>1, <2>2, <2>3, LAloneKeeps
<1> QED
  BY <1>2, <1>3, <1>4 DEF LeaseInv

\* request starts with the list of files it goes through.
LEMMA LRequestStarts ==
  ASSUME LeaseInv, NEW t \in Threads, NEW k \in Keys, NEW want \in Wanted, NEW files \in SUBSET Files \ {{}},
         Request(t, k, want, files)
  PROVE  LeaseInv'
<1> DEFINE work == [LNoWork EXCEPT !.key = k, !.want = want, !.granted = want, !.files = files, !.todo = files]
<1>0. LTypes
  BY DEF LeaseInv
<1>1. /\ work \in LWork /\ work.key = k /\ work.want = want /\ work.granted = want
      /\ work.files = files /\ work.todo = files
  BY LNoWorkFacts, LeaseConstants DEF LNoWork, LWork, Modes
<1>2. lpc[t] = "idle" /\ LGoto(t, "files", work) /\ UNCHANGED <<lease, byFile, byClient, refiled>>
  BY DEF Request
<1> HIDE DEF work
<1>3. "files" \in LLabels /\ "files" \in Scanning /\ "files" \notin Indexing \cup Unindexing /\ "files" # "break"
  BY DEF LLabels, Scanning, Indexing, Unindexing
<1>4. lpc'[t] = "files" /\ lloc'[t] = work
  BY <1>2, LAlone
<1>5. Scanned(t)' /\ KeyFree(t)'
  BY <1>1, <1>3, <1>4 DEF Scanned, KeyFree
<1> QED
  BY <1>0, <1>1, <1>2, <1>3, <1>5, LQuiet DEF LTypes, Indexing

\* request takes the by_file guard of the next file and copies its keys.
LEMMA LRequestFiles ==
  ASSUME LeaseInv, NEW t \in Threads, NEW f \in Files, RequestFile(t, f)
  PROVE  LeaseInv'
<1> DEFINE work == [lloc[t] EXCEPT !.todo = @ \ {f}, !.file = f, !.keys = byFile[f] \ {lloc[t].key}]
<1>0. LTypes /\ LInHand
  BY DEF LeaseInv
<1>1. lloc[t] \in LWork /\ byFile[f] \subseteq Keys
  BY <1>0 DEF LTypes
<1>2. /\ work \in LWork /\ work.key = lloc[t].key /\ work.want = lloc[t].want /\ work.granted = lloc[t].granted
      /\ work.files = lloc[t].files /\ work.todo = lloc[t].todo \ {f} /\ work.file = f
      /\ work.keys = byFile[f] \ {lloc[t].key}
  BY <1>1 DEF LWork
<1>3. lpc[t] = "files" /\ LGoto(t, "keys", work) /\ UNCHANGED <<lease, byFile, byClient, refiled>>
  BY DEF RequestFile
<1> HIDE DEF work
<1>4. "keys" \in LLabels /\ "keys" \in Scanning /\ "keys" \notin Indexing \cup Unindexing /\ lpc[t] \in Scanning
  BY <1>3 DEF LLabels, Scanning, Indexing, Unindexing
<1>5. lpc'[t] = "keys" /\ lloc'[t] = work
  BY <1>3, LAlone
<1>6. lloc[t].key \in Keys /\ lloc[t].granted \subseteq lloc[t].want
  BY <1>0, <1>4 DEF LInHand
<1>7. ASSUME LInTurn PROVE Scanned(t)' /\ KeyFree(t)'
  <2>1. Scanned(t)
    BY <1>7 DEF LInTurn
  <2>2. Scanned(t)'
    BY <1>2, <1>3, <1>4, <1>5, <2>1 DEF Scanned, Seen
  <2>3. KeyFree(t)'
    BY <1>4, <1>5 DEF KeyFree
  <2> QED
    BY <2>2, <2>3
<1> QED
  BY <1>0, <1>2, <1>3, <1>4, <1>6, <1>7, LQuiet DEF LTypes, Indexing

\* request looks at a key of the file and goes on to break it if it conflicts.
LEMMA LRequestKeys ==
  ASSUME LeaseInv, NEW t \in Threads, NEW k \in Keys, RequestKey(t, k)
  PROVE  LeaseInv'
<1>0. LTypes /\ LInHand
  BY DEF LeaseInv
<1>1. lloc[t] \in LWork /\ lease[k] \in LRecords
  BY <1>0 DEF LTypes
<1>2. /\ lpc[t] = "keys" /\ lpc[t] \in Scanning /\ {"keys", "break"} \subseteq LLabels \cap Scanning
      /\ \A l \in {"keys", "break"} : l \notin Indexing \cup Unindexing
  BY DEF RequestKey, LLabels, Scanning, Indexing, Unindexing
<1>3. lloc[t].key \in Keys /\ lloc[t].granted \subseteq lloc[t].want
  BY <1>0, <1>2 DEF LInHand
<1>4. UNCHANGED <<lease, byFile, byClient, refiled>>
  BY DEF RequestKey
<1>5. CASE lease[k].live /\ LConflictsWith(lease[k].state, lloc[t].want)
  <2> DEFINE to == BreakTo(lease[k].state, lloc[t].want)
  <2> DEFINE work == [lloc[t] EXCEPT !.keys = @ \ {k}, !.granted = @ \ {"WRITE"}, !.other = k, !.breakTo = to]
  <2>1. to \subseteq Modes /\ "WRITE" \notin to
    BY <1>1, <1>5 DEF BreakTo, LConflictsWith, LRecords
  <2>2. LGoto(t, "break", work)
    BY <1>5 DEF RequestKey
  <2> HIDE DEF to
  <2>3. /\ work \in LWork /\ work.key = lloc[t].key /\ work.want = lloc[t].want
        /\ work.granted = lloc[t].granted \ {"WRITE"} /\ work.files = lloc[t].files /\ work.todo = lloc[t].todo
        /\ work.file = lloc[t].file /\ work.keys = lloc[t].keys \ {k} /\ work.other = k /\ work.breakTo = to
    BY <1>1, <2>1 DEF LWork
  <2> HIDE DEF work
  <2>5. lpc'[t] = "break" /\ lloc'[t] = work
    BY <1>2, <2>2, LAlone
  <2>6. ASSUME LInTurn PROVE Scanned(t)' /\ KeyFree(t)'
    <3>1. Scanned(t)
      BY <2>6 DEF LInTurn
    <3>2. Scanned(t)'
      BY <1>2, <1>4, <2>3, <2>5, <3>1 DEF Scanned, Seen
    <3>3. KeyFree(t)'
      BY <1>2, <2>5 DEF KeyFree
    <3> QED
      BY <3>2, <3>3
  <2> QED
    BY <1>0, <1>2, <1>3, <1>4, <2>1, <2>2, <2>3, <2>6, LQuiet DEF LTypes, Indexing
<1>6. CASE ~(lease[k].live /\ LConflictsWith(lease[k].state, lloc[t].want))
  <2> DEFINE work == [lloc[t] EXCEPT !.keys = @ \ {k}]
  <2>2. LGoto(t, "keys", work)
    BY <1>6 DEF RequestKey
  <2>3. /\ work \in LWork /\ work.key = lloc[t].key /\ work.want = lloc[t].want
        /\ work.granted = lloc[t].granted /\ work.files = lloc[t].files /\ work.todo = lloc[t].todo
        /\ work.file = lloc[t].file /\ work.keys = lloc[t].keys \ {k}
    BY <1>1 DEF LWork
  <2> HIDE DEF work
  <2>5. lpc'[t] = "keys" /\ lloc'[t] = work
    BY <1>2, <2>2, LAlone
  <2>6. ASSUME LInTurn PROVE Scanned(t)' /\ KeyFree(t)'
    <3>1. Scanned(t)
      BY <2>6 DEF LInTurn
    <3>2. Scanned(t)'
      BY <1>2, <1>4, <1>6, <2>3, <2>5, <3>1 DEF Scanned, Seen
    <3>3. KeyFree(t)'
      BY <1>2, <2>5 DEF KeyFree
    <3> QED
      BY <3>2, <3>3
  <2> QED
    BY <1>0, <1>2, <1>3, <1>4, <2>2, <2>3, <2>6, LQuiet DEF LTypes, Indexing
<1> QED
  BY <1>5, <1>6

\* request has looked at every key of the file.
LEMMA LRequestFileDone ==
  ASSUME LeaseInv, NEW t \in Threads, RequestFileDone(t)
  PROVE  LeaseInv'
<1> DEFINE work == [lloc[t] EXCEPT !.file = "none"]
<1>0. LTypes /\ LInHand
  BY DEF LeaseInv
<1>1. lloc[t] \in LWork
  BY <1>0 DEF LTypes
<1>2. /\ work \in LWork /\ work.key = lloc[t].key /\ work.want = lloc[t].want /\ work.granted = lloc[t].granted
      /\ work.files = lloc[t].files /\ work.todo = lloc[t].todo
  BY <1>1 DEF LWork
<1>3. /\ lpc[t] = "keys" /\ lloc[t].keys = {} /\ LGoto(t, "files", work)
      /\ UNCHANGED <<lease, byFile, byClient, refiled>>
  BY DEF RequestFileDone
<1> HIDE DEF work
<1>4. "files" \in LLabels /\ "files" \in Scanning /\ "files" \notin Indexing \cup Unindexing /\ lpc[t] \in Scanning
  BY <1>3 DEF LLabels, Scanning, Indexing, Unindexing
<1>5. lpc'[t] = "files" /\ lloc'[t] = work
  BY <1>3, LAlone
<1>6. lloc[t].key \in Keys /\ lloc[t].granted \subseteq lloc[t].want
  BY <1>0, <1>4 DEF LInHand
<1>7. ASSUME LInTurn PROVE Scanned(t)' /\ KeyFree(t)'
  <2>1. Scanned(t)
    BY <1>7 DEF LInTurn
  <2>2. Scanned(t)'
    BY <1>2, <1>3, <1>4, <1>5, <2>1 DEF Scanned, Seen
  <2>3. KeyFree(t)'
    BY <1>4, <1>5 DEF KeyFree
  <2> QED
    BY <2>2, <2>3
<1> QED
  BY <1>0, <1>2, <1>3, <1>4, <1>6, <1>7, LQuiet DEF LTypes, Indexing

\* request found no lease of its key.
LEMMA LRequestNew ==
  ASSUME LeaseInv, NEW t \in Threads, RequestNew(t)
  PROVE  LeaseInv'
<1>0. LTypes /\ LInHand
  BY DEF LeaseInv
<1>1. lloc[t] \in LWork
  BY <1>0 DEF LTypes
<1>3. /\ lpc[t] = "files" /\ lloc[t].todo = {} /\ LGoto(t, "insert", lloc[t])
      /\ ~lease[lloc[t].key].live /\ UNCHANGED <<lease, byFile, byClient, refiled>>
  BY DEF RequestNew
<1>4. /\ "insert" \in LLabels /\ "insert" \in Scanning /\ "insert" \notin Indexing \cup Unindexing
      /\ lpc[t] \in Scanning
  BY <1>3 DEF LLabels, Scanning, Indexing, Unindexing
<1>5. lpc'[t] = "insert" /\ lloc'[t] = lloc[t]
  BY <1>3, LAlone
<1>6. lloc[t].key \in Keys /\ lloc[t].granted \subseteq lloc[t].want
  BY <1>0, <1>4 DEF LInHand
<1>7. ASSUME LInTurn PROVE Scanned(t)' /\ KeyFree(t)'
  <2>1. Scanned(t)
    BY <1>7 DEF LInTurn
  <2>2. Scanned(t)'
    BY <1>3, <1>4, <1>5, <2>1 DEF Scanned, Seen
  <2>3. KeyFree(t)'
    BY <1>3, <1>4, <1>5 DEF KeyFree
  <2> QED
    BY <2>2, <2>3
<1> QED
  BY <1>0, <1>1, <1>3, <1>4, <1>6, <1>7, LQuiet DEF LTypes, Indexing

\* request enters the lease in by_client.
LEMMA LIndexClients ==
  ASSUME LeaseInv, NEW t \in Threads, RequestIndexClient(t)
  PROVE  LeaseInv'
<1> DEFINE work == [lloc[t] EXCEPT !.todo = lloc[t].files]
<1>0. LTypes /\ LInHand
  BY DEF LeaseInv
<1>1. lloc[t] \in LWork
  BY <1>0 DEF LTypes
<1>2. work \in LWork /\ work.key = lloc[t].key /\ work.todo = lloc[t].files
  BY <1>1 DEF LWork
<1>3. /\ lpc[t] = "index_client" /\ LGoto(t, "index_files", work) /\ UNCHANGED <<lease, byFile, refiled>>
      /\ byClient' = [byClient EXCEPT ![Owner(lloc[t].key)] = @ \cup {lloc[t].key}]
  BY DEF RequestIndexClient
<1> HIDE DEF work
<1>4. /\ "index_files" \in LLabels /\ "index_files" \notin Scanning \cup Unindexing /\ lpc[t] \in Indexing
      /\ "index_files" \in Indexing
  BY <1>3 DEF LLabels, Scanning, Indexing, Unindexing
<1>5. lpc'[t] = "index_files" /\ lloc'[t] = work /\ \A u \in Threads \ {t} : lpc'[u] = lpc[u] /\ lloc'[u] = lloc[u]
  BY <1>3, LAlone
<1>6. lloc[t].key \in Keys
  BY <1>0, <1>4 DEF LInHand
<1>7. byClient' \in [Clients -> SUBSET Keys]
  BY <1>0, <1>3, <1>6 DEF LTypes, Owner, Keys
<1>8. ASSUME LInTurn PROVE Scanned(t)' /\ KeyFree(t)' /\ Filed'
  <2>1. Filed /\ lease[lloc[t].key].files \subseteq lloc[t].files
    BY <1>3, <1>8 DEF LInTurn, KeyFree
  <2>2. Filed'
    BY <1>2, <1>3, <1>4, <1>5, <2>1 DEF Filed
  <2>3. Scanned(t)' /\ KeyFree(t)'
    BY <1>4, <1>5 DEF Scanned, KeyFree
  <2> QED
    BY <2>2, <2>3
<1> QED
  BY <1>2, <1>3, <1>4, <1>6, <1>7, <1>8, LQuiet

\* request has entered the lease for every file.
LEMMA LIndexDone ==
  ASSUME LeaseInv, NEW t \in Threads, RequestDone(t)
  PROVE  LeaseInv'
<1>0. LTypes /\ LInHand
  BY DEF LeaseInv
<1>3. lpc[t] = "index_files" /\ lloc[t].todo = {} /\ LGoto(t, "idle", LNoWork) /\ UNCHANGED <<lease, byFile, byClient, refiled>>
  BY DEF RequestDone, LReturn
<1>4. "idle" \in LLabels /\ "idle" \notin Scanning \cup Unindexing \cup Indexing /\ "idle" # "break" /\ "idle" # "insert"
  BY DEF LLabels, Scanning, Indexing, Unindexing
<1>5. lpc'[t] = "idle" /\ \A u \in Threads \ {t} : lpc'[u] = lpc[u] /\ lloc'[u] = lloc[u]
  BY <1>3, LAlone
<1>8. ASSUME LInTurn PROVE Scanned(t)' /\ KeyFree(t)' /\ Filed'
  <2>1. Filed
    BY <1>8 DEF LInTurn
  <2>2. Filed'
    BY <1>3, <1>4, <1>5, <2>1 DEF Filed
  <2>3. Scanned(t)' /\ KeyFree(t)'
    BY <1>4, <1>5 DEF Scanned, KeyFree
  <2> QED
    BY <2>2, <2>3
<1> QED
  BY <1>0, <1>3, <1>4, <1>8, LQuiet, LNoWorkFacts DEF LTypes

\* release, expire_leases and release_client start with the keys they take away.
LEMMA LReleaseStarts ==
  ASSUME LeaseInv, NEW t \in Threads, NEW ks \in SUBSET Keys, lpc[t] = "idle",
         LGoto(t, "release", [LNoWork EXCEPT !.keys = ks]), UNCHANGED <<lease, byFile, refiled>>,
         byClient' \in [Clients -> SUBSET Keys]
  PROVE  LeaseInv'
<1> DEFINE work == [LNoWork EXCEPT !.keys = ks]
<1>1. work \in LWork /\ LGoto(t, "release", work)
  BY LNoWorkFacts DEF LNoWork, LWork
<1> HIDE DEF work
<1>2. "release" \in LLabels /\ "release" \notin Scanning \cup Unindexing \cup Indexing \cup {"break", "insert", "index_client"}
  BY DEF LLabels, Scanning, Indexing, Unindexing
<1>3. lpc'[t] = "release"
  BY <1>1, LAlone
<1>4. Scanned(t)' /\ KeyFree(t)'
  BY <1>2, <1>3 DEF Scanned, KeyFree
<1> QED
  BY <1>1, <1>2, <1>4, LQuiet DEF Indexing

\* release, expire_leases and release_client start with a list of keys.
LEMMA LReleaseCalls ==
  ASSUME LeaseInv, NEW t \in Threads,
         \/ \E k \in Keys : Release(t, k)
         \/ ExpireLeases(t)
         \/ \E c \in Clients : ReleaseClient(t, c)
  PROVE  LeaseInv'
<1>0. LTypes
  BY DEF LeaseInv
<1>1. ASSUME NEW k \in Keys, Release(t, k) PROVE LeaseInv'
  BY <1>0, <1>1, LReleaseStarts, {k} \in SUBSET Keys DEF Release, LTypes
<1>2. CASE ExpireLeases(t)
  BY <1>0, <1>2, LReleaseStarts, {k \in Keys : lease[k].live /\ lease[k].expired} \in SUBSET Keys
  DEF ExpireLeases, LTypes
<1>3. ASSUME NEW c \in Clients, ReleaseClient(t, c) PROVE LeaseInv'
  <2>1. byClient[c] \in SUBSET Keys /\ byClient' \in [Clients -> SUBSET Keys]
    BY <1>0, <1>3 DEF LTypes, ReleaseClient
  <2> QED
    BY <1>3, <2>1, LReleaseStarts DEF ReleaseClient
<1> QED
  BY <1>1, <1>2, <1>3

\* release drops the key from by_client.
LEMMA LUnindexClients ==
  ASSUME LeaseInv, NEW t \in Threads, ReleaseUnindexClient(t)
  PROVE  LeaseInv'
<1>0. LTypes /\ LInHand
  BY DEF LeaseInv
<1>1. lloc[t] \in LWork
  BY <1>0 DEF LTypes
<1>3. /\ lpc[t] = "unindex_client" /\ LGoto(t, "unindex_files", lloc[t]) /\ UNCHANGED <<lease, byFile, refiled>>
      /\ byClient' = [byClient EXCEPT ![Owner(lloc[t].key)] = @ \ {lloc[t].key}]
  BY DEF ReleaseUnindexClient
<1>4. /\ "unindex_files" \in LLabels /\ "unindex_files" \notin Scanning \cup Indexing \cup {"break", "index_client"}
      /\ "unindex_files" \in Unindexing /\ lpc[t] \in Unindexing /\ lpc[t] \notin Indexing
  BY <1>3 DEF LLabels, Scanning, Indexing, Unindexing
<1>5. lpc'[t] = "unindex_files" /\ lloc'[t] = lloc[t]
  BY <1>3, LAlone
<1>6. lloc[t].key \in Keys
  BY <1>0, <1>4 DEF LInHand
<1>7. byClient' \in [Clients -> SUBSET Keys]
  BY <1>0, <1>3, <1>6 DEF LTypes, Owner, Keys
<1>8. LInTurn => Scanned(t)' /\ KeyFree(t)'
  BY <1>3, <1>4, <1>5 DEF LInTurn, Scanned, KeyFree
<1> QED
  BY <1>1, <1>3, <1>4, <1>6, <1>7, <1>8, LQuiet

\* release goes on to the next key, or returns.
LEMMA LReleaseNext ==
  ASSUME LeaseInv, NEW t \in Threads, ReleaseNext(t) \/ ReleaseDone(t)
  PROVE  LeaseInv'
<1>0. LTypes /\ LInHand
  BY DEF LeaseInv
<1> DEFINE work == [lloc[t] EXCEPT !.key = NoKey]
<1>1. work \in LWork
  BY <1>0 DEF LTypes, LWork
<1>2. PICK label \in {"idle", "release"}, w \in {LNoWork, work} :
        LGoto(t, label, w) /\ UNCHANGED <<lease, byFile, byClient, refiled>> /\ lpc[t] \in {"unindex_files", "release"}
  BY DEF ReleaseNext, ReleaseDone, LReturn
<1>3. w \in LWork
  BY <1>1, <1>2, LNoWorkFacts
<1>4. label \in LLabels /\ label \notin Scanning \cup Indexing \cup Unindexing \cup {"break", "insert", "index_client"} /\ lpc[t] \notin Indexing
  BY <1>2 DEF LLabels, Scanning, Indexing, Unindexing
<1>5. lpc'[t] = label
  BY <1>2, LAlone
<1>6. Scanned(t)' /\ KeyFree(t)'
  BY <1>4, <1>5 DEF Scanned, KeyFree
<1> QED
  BY <1>0, <1>2, <1>3, <1>4, <1>6, LQuiet DEF LTypes

\* Any step of one thread: what is left to show of it.
LEMMA LMoves ==
  ASSUME LeaseInv, NEW t \in Threads, NEW label \in LLabels, NEW work \in LWork, LGoto(t, label, work),
         lpc[t] # "idle" \/ label # "idle",
         lease' \in [Keys -> LRecords], byFile' \in [Files -> SUBSET Keys], UNCHANGED byClient,
         refiled' \subseteq Keys, Records',
         label \in Scanning \cup Indexing \cup Unindexing => work.key \in Keys,
         label = "break" => work.other \in Keys /\ "WRITE" \notin work.breakTo,
         label \in Scanning => work.granted \subseteq work.want,
         (LInTurn /\ \A u \in Threads \ {t} : lpc[u] = "idle" /\ lpc'[u] = "idle")
           => Told' /\ Filed' /\ Scanned(t)' /\ KeyFree(t)'
  PROVE  LeaseInv'
<1>0. LTypes /\ LInHand
  BY DEF LeaseInv
<1>1. /\ lpc'[t] = label /\ lloc'[t] = work
      /\ \A u \in Threads \ {t} : lpc'[u] = lpc[u] /\ lloc'[u] = lloc[u]
      /\ lpc' \in [Threads -> LLabels] /\ lloc' \in [Threads -> LWork] /\ leaseOverlapped' \in BOOLEAN
  BY LAlone
<1>2. LTypes'
  BY <1>0, <1>1 DEF LTypes
<1>3. LInHand'
  BY <1>0, <1>1 DEF LInHand
<1>4. ASSUME ~leaseOverlapped' PROVE LInTurn'
  <2>1. LInTurn /\ \A u \in Threads \ {t} : lpc[u] = "idle" /\ lpc'[u] = "idle"
    BY <1>4, LAlone
  <2> QED
    BY <2>1, LAloneKeeps
<1> QED
  BY <1>2, <1>3, <1>4 DEF LeaseInv

\* request marks a conflicting lease as being broken.
LEMMA LRequestBreaks ==
  ASSUME LeaseInv, NEW t \in Threads, RequestBreak(t)
  PROVE  LeaseInv'
<1> DEFINE work == [lloc[t] EXCEPT !.other = NoKey, !.breakTo = {}]
<1> DEFINE k == lloc[t].other
<1>0. LTypes /\ LInHand /\ Records
  BY DEF LeaseInv
<1>1. lloc[t] \in LWork
  BY <1>0 DEF LTypes
<1>2. /\ work \in LWork /\ work.key = lloc[t].key /\ work.want = lloc[t].want /\ work.granted = lloc[t].granted
      /\ work.files = lloc[t].files /\ work.todo = lloc[t].todo /\ work.file = lloc[t].file /\ work.keys = lloc[t].keys
  BY <1>1 DEF LWork
<1>3. /\ lpc[t] = "break" /\ LGoto(t, "keys", work) /\ UNCHANGED <<byFile, byClient, refiled>>
      /\ lease' = IF lease[k].live
                   THEN [lease EXCEPT ![k].pending = TRUE, ![k].breakTo = lloc[t].breakTo] ELSE lease
  BY DEF RequestBreak
<1> HIDE DEF work
<1>4. "keys" \in LLabels /\ "keys" \in Scanning /\ "keys" \notin Indexing \cup Unindexing /\ lpc[t] \in Scanning
  BY <1>3 DEF LLabels, Scanning, Indexing, Unindexing
<1>5. lpc'[t] = "keys" /\ lloc'[t] = work
  BY <1>3, LAlone
<1>6. lloc[t].key \in Keys /\ lloc[t].granted \subseteq lloc[t].want /\ k \in Keys /\ "WRITE" \notin lloc[t].breakTo
  BY <1>0, <1>3, <1>4 DEF LInHand
<1>7. /\ \A j \in Keys \ {k} : lease'[j] = lease[j]
      /\ ~lease[k].live => lease'[k] = lease[k]
      /\ lease[k].live => lease'[k].pending /\ lease'[k].breakTo = lloc[t].breakTo
      /\ \A j \in Keys : /\ lease'[j].live = lease[j].live /\ lease'[j].state = lease[j].state
                         /\ lease'[j].files = lease[j].files /\ (lease[j].pending => lease'[j].pending)
      /\ lease' \in [Keys -> LRecords]
  <2>1. lease[k] \in LRecords /\ lloc[t].breakTo \subseteq Modes
    BY <1>0, <1>1, <1>6 DEF LTypes, LWork
  <2>2. CASE lease[k].live
    <3> DEFINE r == [lease[k] EXCEPT !.pending = TRUE, !.breakTo = lloc[t].breakTo]
    <3>1. /\ r \in LRecords /\ r.live = lease[k].live /\ r.state = lease[k].state /\ r.files = lease[k].files
          /\ r.pending = TRUE /\ r.breakTo = lloc[t].breakTo
      BY <2>1 DEF LRecords
    <3>2. lease' = [lease EXCEPT ![k] = r]
      BY <1>0, <1>3, <1>6, <2>2 DEF LTypes
    <3> HIDE DEF r
    <3> QED
      BY <1>0, <1>6, <2>2, <3>1, <3>2 DEF LTypes
  <2>3. CASE ~lease[k].live
    BY <1>0, <1>3, <2>3 DEF LTypes
  <2> QED
    BY <2>2, <2>3
<1>8. Records'
  <2> SUFFICES ASSUME NEW j \in Keys
               PROVE (~lease'[j].live => lease'[j].files = {} /\ lease'[j].state = {}) /\ (lease'[j].pending => "WRITE" \notin lease'[j].breakTo)
    BY DEF Records
  <2>1. CASE j # k \/ ~lease[k].live
    BY <1>0, <1>7, <2>1 DEF Records
  <2>2. CASE j = k /\ lease[k].live
    BY <1>6, <1>7, <2>2
  <2> QED
    BY <2>1, <2>2
<1>9. ASSUME LInTurn, \A u \in Threads \ {t} : lpc[u] = "idle" /\ lpc'[u] = "idle"
      PROVE  Told' /\ Filed' /\ Scanned(t)' /\ KeyFree(t)'
  <2>1. Told /\ Filed /\ Scanned(t)
    BY <1>9 DEF LInTurn
  <2>2. Told'
    <3> SUFFICES ASSUME NEW i \in Keys \ refiled, NEW j \in Keys \ refiled, Sharing(i, j)',
                        LConflictsWith(lease'[i].state, lease'[j].state)
                 PROVE  Yields(i, j)' \/ Yields(j, i)'
      BY <1>3 DEF Told
    <3>1. Sharing(i, j) /\ LConflictsWith(lease[i].state, lease[j].state)
      BY <1>7 DEF Sharing
    <3>2. Yields(i, j) \/ Yields(j, i)
      BY <2>1, <3>1 DEF Told
    <3> QED
      BY <1>7, <3>2 DEF Yields
  <2>3. Filed'
    BY <1>3, <1>7, <1>9, <2>1 DEF Filed, Indexing
  <2>4. Scanned(t)'
    <3> SUFFICES ASSUME NEW f \in lloc[t].files, NEW j \in byFile[f] \ {lloc[t].key}
                 PROVE  f \in lloc[t].todo \/ (f = lloc[t].file /\ j \in lloc[t].keys) \/ Seen(t, j)'
      BY <1>2, <1>3, <1>4, <1>5 DEF Scanned
    <3>1. j \in Keys
      BY <1>0, <1>1 DEF LTypes, LWork
    <3>2. \/ f \in lloc[t].todo \/ (f = lloc[t].file /\ j \in lloc[t].keys)
          \/ (j = k /\ "WRITE" \notin lloc[t].granted) \/ Seen(t, j)
      BY <1>3, <1>4, <2>1 DEF Scanned
    <3>3. CASE j = k /\ "WRITE" \notin lloc[t].granted
      BY <1>2, <1>5, <1>7, <3>1, <3>3 DEF Seen
    <3>4. CASE Seen(t, j)
      BY <1>2, <1>5, <1>7, <3>1, <3>4 DEF Seen
    <3> QED
      BY <3>2, <3>3, <3>4
  <2>5. KeyFree(t)'
    BY <1>4, <1>5 DEF KeyFree
  <2> QED
    BY <2>2, <2>3, <2>4, <2>5
<1>10. byFile' \in [Files -> SUBSET Keys] /\ refiled' \subseteq Keys
  BY <1>0, <1>3 DEF LTypes
<1> QED
  BY <1>2, <1>3, <1>4, <1>6, <1>7, <1>8, <1>9, <1>10, LMoves

\* What the lease of the request is granted, on top of what it has, is in no
\* conflict that a lease in its way was not told about.
LEMMA LGrantYields ==
  ASSUME LTypes, Records, NEW t \in Threads, Filed, Scanned(t), lpc[t] \in {"files", "insert"},
         lpc[t] = "files" => lloc[t].todo = {}, \A u \in Threads \ {t} : lpc[u] = "idle",
         NEW j \in Keys \ refiled, j # lloc[t].key, lease[j].files \cap lloc[t].files # {},
         LConflictsWith(lease[j].state, lloc[t].want)
  PROVE  "WRITE" \notin lloc[t].granted /\ lease[j].pending
<1>1. PICK f \in lloc[t].files : f \in lease[j].files
  OBVIOUS
<1>2. j \in byFile[f]
  BY <1>1 DEF Filed, Indexing
<1>3. lease[j].live
  BY <1>1 DEF Records
<1> QED
  BY <1>2, <1>3 DEF Scanned, Scanning, Seen

\* When two lease states conflict.
LEMMA ConflictMeans ==
  \A a, b : LConflictsWith(a, b) <=> \/ "WRITE" \in a /\ ("READ" \in b \/ "WRITE" \in b)
                                     \/ "WRITE" \in b /\ ("READ" \in a \/ "WRITE" \in a)
BY DEF LConflictsWith

\* A lease that is granted after the scan conflicts with none that is not
\* being broken.
LEMMA LGranted ==
  ASSUME LTypes, LInHand, Records, Told, NEW t \in Threads, Filed, Scanned(t), lpc[t] \in {"files", "insert"},
         lpc[t] = "files" => lloc[t].todo = {}, \A u \in Threads \ {t} : lpc[u] = "idle",
         NEW k \in Keys, k = lloc[t].key, refiled \subseteq refiled',
         lease' \in [Keys -> LRecords], \A j \in Keys \ {k} : lease'[j] = lease[j],
         k \notin refiled' => /\ lease'[k].files = lloc[t].files
                             /\ lease'[k].state = lease[k].state \cup lloc[t].granted
                             /\ (lease[k].state # {} => lease[k].files = lloc[t].files)
                             /\ (lease[k].pending /\ lease[k].state # {} => lease'[k].pending)
  PROVE  Told'
<1>1. ASSUME NEW j \in Keys \ refiled', j # k, k \notin refiled', lease'[j].files \cap lease'[k].files # {},
             LConflictsWith(lease'[j].state, lease'[k].state)
      PROVE  Yields(j, k)' \/ Yields(k, j)'
  <2>1. /\ lease'[j] = lease[j] /\ j \in Keys \ refiled /\ k \in Keys \ refiled
        /\ lease'[k].files = lloc[t].files /\ lease'[k].state = lease[k].state \cup lloc[t].granted
    BY <1>1
  <2>6. /\ lease[j].files \cap lloc[t].files # {}
        /\ LConflictsWith(lease[j].state, lease[k].state \cup lloc[t].granted)
    BY <1>1, <2>1
  <2>2. LConflictsWith(lease[j].state, lloc[t].want) => "WRITE" \notin lloc[t].granted /\ lease[j].pending
    BY <1>1, <2>1, <2>6, LGrantYields
  <2>3. lloc[t].granted \subseteq lloc[t].want
    BY DEF LInHand, Scanning
  <2>4. CASE LConflictsWith(lease[j].state, lease[k].state)
    <3>1. lease[k].state # {}
      BY <2>4 DEF LConflictsWith
    <3>2. Sharing(j, k)
      BY <1>1, <2>1, <2>6, <3>1 DEF Sharing
    <3>3. Yields(j, k) \/ Yields(k, j)
      BY <2>1, <2>4, <3>2 DEF Told
    <3>4. CASE Yields(j, k)
      <4>1. "WRITE" \notin lloc[t].granted
        BY <2>2, <2>3, <3>4, ConflictMeans DEF Yields
      <4> QED
        BY <2>1, <3>4, <4>1 DEF Yields
    <3>5. CASE Yields(k, j)
      BY <1>1, <2>1, <3>1, <3>5 DEF Yields
    <3> QED
      BY <3>3, <3>4, <3>5
  <2>5. CASE ~LConflictsWith(lease[j].state, lease[k].state)
    <3>1. LConflictsWith(lease[j].state, lloc[t].granted) /\ LConflictsWith(lease[j].state, lloc[t].want)
      BY <2>3, <2>5, <2>6, ConflictMeans
    <3>2. "WRITE" \notin lloc[t].granted /\ lease[j].pending
      BY <2>2, <3>1
    <3>3. "WRITE" \in lease[j].state /\ "WRITE" \notin lease[k].state
      BY <2>5, <3>1, <3>2, ConflictMeans
    <3> QED
      BY <2>1, <3>2, <3>3 DEF Yields
  <2> QED
    BY <2>4, <2>5
<1>2. \A a, b : LConflictsWith(a, b) <=> LConflictsWith(b, a)
  BY DEF LConflictsWith
<1> SUFFICES ASSUME NEW i \in Keys \ refiled', NEW j \in Keys \ refiled', Sharing(i, j)',
                    LConflictsWith(lease'[i].state, lease'[j].state)
             PROVE  Yields(i, j)' \/ Yields(j, i)'
  BY DEF Told
<1>3. CASE i = k
  BY <1>1, <1>2, <1>3 DEF Sharing
<1>4. CASE j = k
  BY <1>1, <1>4 DEF Sharing
<1>5. CASE i # k /\ j # k
  BY <1>5 DEF Told, Sharing, Yields
<1> QED
  BY <1>3, <1>4, <1>5

\* request adds to the lease it found.
LEMMA LRequestUpdates ==
  ASSUME LeaseInv, NEW t \in Threads, RequestUpdate(t)
  PROVE  LeaseInv'
<1> DEFINE k == lloc[t].key
<1>0. LTypes /\ LInHand /\ Records
  BY DEF LeaseInv
<1>1. lloc[t] \in LWork
  BY <1>0 DEF LTypes
<1>3. /\ lpc[t] = "files" /\ lloc[t].todo = {} /\ lease[k].live /\ LGoto(t, "idle", LNoWork)
      /\ UNCHANGED <<byFile, byClient>>
      /\ refiled' = refiled \cup {i \in {k} : lease[i].files # lloc[t].files}
      /\ lease' = [lease EXCEPT ![k].state = @ \cup lloc[t].granted, ![k].files = @ \cup lloc[t].files,
                               ![k].expired = FALSE]
  BY DEF RequestUpdate, LReturn
<1>4. /\ "idle" \in LLabels /\ "idle" \notin Scanning \cup Indexing \cup Unindexing \cup {"break", "insert", "index_client"}
      /\ lpc[t] \in Scanning
  BY <1>3 DEF LLabels, Scanning, Indexing, Unindexing
<1>5. lpc'[t] = "idle"
  BY <1>3, LAlone
<1>6. k \in Keys
  BY <1>0, <1>4 DEF LInHand
<1> DEFINE r == [lease[k] EXCEPT !.state = @ \cup lloc[t].granted, !.files = @ \cup lloc[t].files, !.expired = FALSE]
<1>7. /\ r \in LRecords /\ r.live = lease[k].live /\ r.state = lease[k].state \cup lloc[t].granted
      /\ r.files = lease[k].files \cup lloc[t].files /\ r.pending = lease[k].pending /\ r.breakTo = lease[k].breakTo
  <2>1. /\ lease[k] \in LRecords /\ lease[k].state \cup lloc[t].granted \subseteq Modes
        /\ lease[k].files \cup lloc[t].files \subseteq Files
    BY <1>0, <1>1, <1>6 DEF LTypes, LRecords, LWork
  <2> QED
    BY <2>1 DEF LRecords
<1>8. lease' = [lease EXCEPT ![k] = r]
  BY <1>0, <1>3, <1>6 DEF LTypes
<1> HIDE DEF r
<1>9. lease'[k] = r /\ (\A j \in Keys \ {k} : lease'[j] = lease[j]) /\ lease' \in [Keys -> LRecords]
  BY <1>0, <1>6, <1>7, <1>8 DEF LTypes
<1>10. Records'
  BY <1>0, <1>3, <1>7, <1>9 DEF Records
<1>11. refiled \subseteq refiled' /\ refiled' \subseteq Keys /\ (k \notin refiled' => lease[k].files = lloc[t].files)
  BY <1>0, <1>3, <1>6 DEF LTypes
<1>12. ASSUME LInTurn, \A u \in Threads \ {t} : lpc[u] = "idle" /\ lpc'[u] = "idle"
       PROVE  Told' /\ Filed' /\ Scanned(t)' /\ KeyFree(t)'
  <2>1. Told /\ Filed /\ Scanned(t)
    BY <1>12 DEF LInTurn
  <2>2. k \notin refiled' => /\ lease'[k].files = lloc[t].files
                            /\ lease'[k].state = lease[k].state \cup lloc[t].granted
                            /\ (lease[k].state # {} => lease[k].files = lloc[t].files)
                            /\ (lease[k].pending /\ lease[k].state # {} => lease'[k].pending)
    BY <1>7, <1>9, <1>11
  <2>3. Told'
    BY <1>0, <1>3, <1>6, <1>9, <1>11, <1>12, <2>1, <2>2, LGranted
  <2>4. Filed'
    <3> SUFFICES ASSUME NEW j \in Keys \ refiled', NEW f \in lease'[j].files PROVE j \in byFile[f]
      BY <1>3 DEF Filed
    <3>1. f \in lease[j].files /\ j \in Keys \ refiled
      BY <1>7, <1>9, <1>11
    <3> QED
      BY <1>3, <1>12, <2>1, <3>1 DEF Filed, Indexing
  <2>5. Scanned(t)' /\ KeyFree(t)'
    BY <1>4, <1>5 DEF Scanned, KeyFree
  <2> QED
    BY <2>3, <2>4, <2>5
<1>13. byFile' \in [Files -> SUBSET Keys]
  BY <1>0, <1>3 DEF LTypes
<1> QED
  BY <1>3, <1>4, <1>9, <1>10, <1>11, <1>12, <1>13, LMoves, LNoWorkFacts

\* request inserts a lease of its own.
LEMMA LRequestInserts ==
  ASSUME LeaseInv, NEW t \in Threads, RequestInsert(t)
  PROVE  LeaseInv'
<1> DEFINE k == lloc[t].key
<1> DEFINE r == [NoLease EXCEPT !.live = TRUE, !.state = lloc[t].granted, !.files = lloc[t].files]
<1>0. LTypes /\ LInHand /\ Records
  BY DEF LeaseInv
<1>1. lloc[t] \in LWork
  BY <1>0 DEF LTypes
<1>2. r \in LRecords /\ r.live /\ r.state = lloc[t].granted /\ r.files = lloc[t].files /\ ~r.pending
  BY <1>1, LNoWorkFacts DEF NoLease, LRecords, LWork
<1>3. /\ lpc[t] = "insert" /\ LGoto(t, "index_client", lloc[t]) /\ UNCHANGED <<byFile, byClient, refiled>>
      /\ lease' = [lease EXCEPT ![k] = r]
  BY DEF RequestInsert
<1> HIDE DEF r
<1>4. /\ "index_client" \in LLabels /\ "index_client" \notin Scanning \cup Unindexing \cup {"break", "insert"}
      /\ "index_client" \in Indexing /\ lpc[t] \in Scanning
  BY <1>3 DEF LLabels, Scanning, Indexing, Unindexing
<1>5. lpc'[t] = "index_client" /\ lloc'[t] = lloc[t]
  BY <1>3, LAlone
<1>6. k \in Keys
  BY <1>0, <1>4 DEF LInHand
<1>9. lease'[k] = r /\ (\A j \in Keys \ {k} : lease'[j] = lease[j]) /\ lease' \in [Keys -> LRecords]
  BY <1>0, <1>2, <1>3, <1>6 DEF LTypes
<1>10. Records'
  BY <1>0, <1>2, <1>9 DEF Records
<1>12. ASSUME LInTurn, \A u \in Threads \ {t} : lpc[u] = "idle" /\ lpc'[u] = "idle"
       PROVE  Told' /\ Filed' /\ Scanned(t)' /\ KeyFree(t)'
  <2>1. Told /\ Filed /\ Scanned(t) /\ ~lease[k].live
    BY <1>3, <1>12 DEF LInTurn, KeyFree
  <2>2. lease[k].state = {} /\ lease'[k].files = lloc[t].files /\ lease'[k].state = lease[k].state \cup lloc[t].granted
    BY <1>0, <1>2, <1>6, <1>9, <2>1 DEF Records
  <2>3. Told'
    BY <1>0, <1>3, <1>6, <1>9, <1>12, <2>1, <2>2, LGranted
  <2>4. Filed'
    <3> SUFFICES ASSUME NEW j \in Keys \ refiled, NEW f \in lease'[j].files, j # k PROVE j \in byFile[f]
      BY <1>3, <1>4, <1>5 DEF Filed
    <3> QED
      BY <1>3, <1>9, <1>12, <2>1 DEF Filed, Indexing
  <2>5. Scanned(t)' /\ KeyFree(t)'
    BY <1>4, <1>5, <2>2 DEF Scanned, KeyFree
  <2> QED
    BY <2>3, <2>4, <2>5
<1>13. byFile' \in [Files -> SUBSET Keys] /\ refiled' \subseteq Keys
  BY <1>0, <1>3 DEF LTypes
<1> QED
  BY <1>1, <1>3, <1>4, <1>6, <1>9, <1>10, <1>12, <1>13, LMoves

\* request enters the key in by_file.
LEMMA LIndexFiles ==
  ASSUME LeaseInv, NEW t \in Threads, NEW f \in Files, RequestIndexFile(t, f)
  PROVE  LeaseInv'
<1> DEFINE k == lloc[t].key
<1> DEFINE work == [lloc[t] EXCEPT !.todo = @ \ {f}]
<1>0. LTypes /\ LInHand /\ Records
  BY DEF LeaseInv
<1>1. lloc[t] \in LWork
  BY <1>0 DEF LTypes
<1>2. work \in LWork /\ work.key = k /\ work.todo = lloc[t].todo \ {f}
  BY <1>1 DEF LWork
<1>3. /\ lpc[t] = "index_files" /\ LGoto(t, "index_files", work) /\ UNCHANGED <<lease, byClient, refiled>>
      /\ byFile' = [byFile EXCEPT ![f] = @ \cup {k}]
  BY DEF RequestIndexFile
<1> HIDE DEF work
<1>4. /\ "index_files" \in LLabels /\ "index_files" \notin Scanning \cup Unindexing \cup {"break", "insert"}
      /\ "index_files" \in Indexing
  BY DEF LLabels, Scanning, Indexing, Unindexing
<1>5. lpc'[t] = "index_files" /\ lloc'[t] = work
  BY <1>3, LAlone
<1>6. k \in Keys
  BY <1>0, <1>3, <1>4 DEF LInHand
<1>7. /\ byFile'[f] = byFile[f] \cup {k} /\ \A g \in Files \ {f} : byFile'[g] = byFile[g]
      /\ byFile' \in [Files -> SUBSET Keys]
  BY <1>0, <1>3, <1>6 DEF LTypes
<1>10. Records' /\ lease' \in [Keys -> LRecords] /\ refiled' \subseteq Keys
  BY <1>0, <1>3 DEF Records, LTypes
<1>12. ASSUME LInTurn, \A u \in Threads \ {t} : lpc[u] = "idle" /\ lpc'[u] = "idle"
       PROVE  Told' /\ Filed' /\ Scanned(t)' /\ KeyFree(t)'
  <2>1. Told /\ Filed
    BY <1>12 DEF LInTurn
  <2>3. Told'
    BY <1>3, <2>1 DEF Told, Sharing, Yields
  <2>4. Filed'
    <3> SUFFICES ASSUME NEW j \in Keys \ refiled, NEW g \in lease[j].files, j \notin byFile'[g]
                 PROVE  j = k /\ g \in work.todo
      BY <1>2, <1>3, <1>4, <1>5 DEF Filed
    <3>1. g \in Files
      BY <1>0 DEF LTypes, LRecords
    <3>2. j \notin byFile[g] /\ (j = k => g # f)
      BY <1>7, <3>1
    <3> QED
      BY <1>2, <1>3, <1>12, <2>1, <3>2 DEF Filed, Indexing
  <2>5. Scanned(t)' /\ KeyFree(t)'
    BY <1>4, <1>5 DEF Scanned, KeyFree
  <2> QED
    BY <2>3, <2>4, <2>5
<1> QED
  BY <1>2, <1>3, <1>4, <1>6, <1>7, <1>10, <1>12, LMoves

\* release drops the key from by_file.
LEMMA LUnindexFiles ==
  ASSUME LeaseInv, NEW t \in Threads, NEW f \in Files, ReleaseUnindexFile(t, f)
  PROVE  LeaseInv'
<1> DEFINE k == lloc[t].key
<1> DEFINE work == [lloc[t] EXCEPT !.todo = @ \ {f}]
<1>0. LTypes /\ LInHand /\ Records
  BY DEF LeaseInv
<1>1. lloc[t] \in LWork
  BY <1>0 DEF LTypes
<1>2. work \in LWork /\ work.key = k
  BY <1>1 DEF LWork
<1>3. /\ lpc[t] = "unindex_files" /\ LGoto(t, "unindex_files", work) /\ UNCHANGED <<lease, byClient, refiled>>
      /\ byFile' = [byFile EXCEPT ![f] = @ \ {k}]
  BY DEF ReleaseUnindexFile
<1> HIDE DEF work
<1>4. /\ "unindex_files" \in LLabels /\ "unindex_files" \notin Scanning \cup Indexing \cup {"break", "insert", "index_client"}
      /\ "unindex_files" \in Unindexing
  BY DEF LLabels, Scanning, Indexing, Unindexing
<1>5. lpc'[t] = "unindex_files" /\ lloc'[t] = work
  BY <1>3, LAlone
<1>6. k \in Keys
  BY <1>0, <1>3, <1>4 DEF LInHand
<1>7. /\ byFile'[f] = byFile[f] \ {k} /\ \A g \in Files \ {f} : byFile'[g] = byFile[g]
      /\ byFile' \in [Files -> SUBSET Keys]
  BY <1>0, <1>3, <1>6 DEF LTypes
<1>10. Records' /\ lease' \in [Keys -> LRecords] /\ refiled' \subseteq Keys
  BY <1>0, <1>3 DEF Records, LTypes
<1>12. ASSUME LInTurn, \A u \in Threads \ {t} : lpc[u] = "idle" /\ lpc'[u] = "idle"
       PROVE  Told' /\ Filed' /\ Scanned(t)' /\ KeyFree(t)'
  <2>1. Told /\ Filed /\ ~lease[k].live
    BY <1>3, <1>4, <1>12 DEF LInTurn, KeyFree
  <2>3. Told'
    BY <1>3, <2>1 DEF Told, Sharing, Yields
  <2>4. Filed'
    <3> SUFFICES ASSUME NEW j \in Keys \ refiled, NEW g \in lease[j].files PROVE j \in byFile'[g]
      BY <1>3 DEF Filed
    <3>1. g \in Files /\ j # k
      BY <1>0, <1>6, <2>1 DEF LTypes, LRecords, Records
    <3>2. j \in byFile[g]
      BY <1>3, <1>12, <2>1 DEF Filed, Indexing
    <3> QED
      BY <1>7, <3>1, <3>2
  <2>5. Scanned(t)' /\ KeyFree(t)'
    BY <1>2, <1>3, <1>4, <1>5, <2>1 DEF Scanned, KeyFree
  <2> QED
    BY <2>3, <2>4, <2>5
<1> QED
  BY <1>2, <1>3, <1>4, <1>6, <1>7, <1>10, <1>12, LMoves

\* release removes the lease before the entries of the two indexes.
LEMMA LReleaseRemoves ==
  ASSUME LeaseInv, NEW t \in Threads, NEW k \in Keys, ReleaseRemove(t, k)
  PROVE  LeaseInv'
<1> DEFINE work == [lloc[t] EXCEPT !.keys = @ \ {k}, !.key = k, !.todo = lease[k].files]
<1>0. LTypes /\ LInHand /\ Records
  BY DEF LeaseInv
<1>1. lloc[t] \in LWork /\ lease[k].files \subseteq Files
  BY <1>0 DEF LTypes, LRecords
<1>2. work \in LWork /\ work.key = k
  BY <1>1 DEF LWork
<1>3. /\ lpc[t] = "release" /\ UNCHANGED <<byFile, byClient, refiled>> /\ lease' = [lease EXCEPT ![k] = NoLease]
      /\ LGoto(t, IF lease[k].live THEN "unindex_client" ELSE "release", work)
  BY DEF ReleaseRemove
<1> HIDE DEF work
<1>4. PICK label \in {"unindex_client", "release"} : LGoto(t, label, work)
  BY <1>3
<1>5. label \in LLabels /\ label \notin Scanning \cup Indexing \cup {"break", "insert", "index_client"}
  BY <1>4 DEF LLabels, Scanning, Indexing, Unindexing
<1>6. lpc'[t] = label /\ lloc'[t] = work
  BY <1>3, <1>4, LAlone
<1>7. lease'[k] = NoLease /\ (\A j \in Keys \ {k} : lease'[j] = lease[j]) /\ lease' \in [Keys -> LRecords]
  BY <1>0, <1>3, LNoWorkFacts DEF LTypes
<1>8. Records'
  BY <1>0, <1>7, LNoWorkFacts DEF Records
<1>9. ASSUME LInTurn, \A u \in Threads \ {t} : lpc[u] = "idle" /\ lpc'[u] = "idle"
      PROVE  Told' /\ Filed' /\ Scanned(t)' /\ KeyFree(t)'
  <2>1. Told /\ Filed
    BY <1>9 DEF LInTurn
  <2>2. Told'
    BY <1>3, <1>7, <2>1, LNoWorkFacts DEF Told, Sharing, Yields
  <2>3. Filed'
    BY <1>3, <1>7, <1>9, <2>1, LNoWorkFacts DEF Filed, Indexing
  <2>4. Scanned(t)' /\ KeyFree(t)'
    BY <1>2, <1>5, <1>6, <1>7, LNoWorkFacts DEF Scanned, KeyFree
  <2> QED
    BY <2>2, <2>3, <2>4
<1>10. byFile' \in [Files -> SUBSET Keys] /\ refiled' \subseteq Keys
  BY <1>0, <1>3 DEF LTypes
<1> QED
  BY <1>2, <1>3, <1>4, <1>5, <1>7, <1>8, <1>9, <1>10, LMoves

\* renew, and time, touch what no other call looks at.
LEMMA LExpiryStays ==
  ASSUME LeaseInv, NEW k \in Keys, NEW b \in BOOLEAN, lease' = [lease EXCEPT ![k].expired = b],
         UNCHANGED <<byClient, byFile, lpc, lloc, refiled, leaseOverlapped>>
  PROVE  LeaseInv'
<1>0. LTypes /\ LInHand /\ Records
  BY DEF LeaseInv
<1> DEFINE r == [lease[k] EXCEPT !.expired = b]
<1>1. lease[k] \in LRecords
  BY <1>0 DEF LTypes
<1>2. /\ r \in LRecords /\ r.live = lease[k].live /\ r.state = lease[k].state /\ r.files = lease[k].files
      /\ r.pending = lease[k].pending /\ r.breakTo = lease[k].breakTo
  BY <1>1 DEF LRecords
<1>3. lease' = [lease EXCEPT ![k] = r]
  BY <1>0 DEF LTypes
<1> HIDE DEF r
<1>4. /\ lease' \in [Keys -> LRecords]
      /\ \A j \in Keys : /\ lease'[j].live = lease[j].live /\ lease'[j].state = lease[j].state
                         /\ lease'[j].files = lease[j].files /\ lease'[j].pending = lease[j].pending
                         /\ lease'[j].breakTo = lease[j].breakTo
  BY <1>0, <1>2, <1>3 DEF LTypes
<1>5. LTypes' /\ Records' /\ LInHand'
  BY <1>0, <1>4 DEF LTypes, Records, LInHand
<1>6. ASSUME LInTurn PROVE LInTurn'
  <2>1. LOneCall'
    BY <1>6 DEF LInTurn, LOneCall
  <2>2. Told'
    <3> SUFFICES ASSUME NEW i \in Keys \ refiled, NEW j \in Keys \ refiled, Sharing(i, j)',
                        LConflictsWith(lease'[i].state, lease'[j].state)
                 PROVE  Yields(i, j)' \/ Yields(j, i)'
      BY DEF Told
    <3>1. Sharing(i, j) /\ LConflictsWith(lease[i].state, lease[j].state)
      BY <1>4 DEF Sharing
    <3>2. Yields(i, j) \/ Yields(j, i)
      BY <1>6, <3>1 DEF LInTurn, Told
    <3> QED
      BY <1>4, <3>2 DEF Yields
  <2>3. Filed'
    BY <1>4, <1>6 DEF LInTurn, Filed
  <2>4. ASSUME NEW t \in Threads PROVE KeyFree(t)'
    <3>1. lpc[t] \in {"insert", "index_client"} \cup Unindexing => lloc[t].key \in Keys
      BY <1>0 DEF LInHand, Scanning, Indexing
    <3> QED
      BY <1>4, <1>6, <3>1 DEF LInTurn, KeyFree
  <2>5. ASSUME NEW t \in Threads PROVE Scanned(t)'
    <3>1. \A f \in lloc[t].files : byFile[f] \subseteq Keys
      BY <1>0 DEF LTypes, LWork
    <3> QED
      BY <1>4, <1>6, <3>1 DEF LInTurn, Scanned, Seen
  <2> QED
    BY <2>1, <2>2, <2>3, <2>4, <2>5 DEF LInTurn
<1> QED
  BY <1>5, <1>6 DEF LeaseInv

\* Every step keeps the invariant, one case per action.
LEMMA LeasePreserved == ASSUME LeaseInv, [LeaseNext]_leaseVars PROVE LeaseInv'
<1>1. CASE UNCHANGED leaseVars
  BY <1>1 DEF leaseVars, LeaseInv, LTypes, Records, LInHand, LInTurn, LOneCall, Told, Filed, Scanned, Seen,
              KeyFree, Sharing, Yields
<1>2. ASSUME NEW t \in Threads, NEW k \in Keys, Renew(t, k) PROVE LeaseInv'
  BY <1>2, LExpiryStays, FALSE \in BOOLEAN DEF Renew
<1>3. ASSUME NEW k \in Keys, LeaseExpires(k) PROVE LeaseInv'
  BY <1>3, LExpiryStays, TRUE \in BOOLEAN DEF LeaseExpires
<1>4. ASSUME NEW t \in Threads, LeaseCall(t) PROVE LeaseInv'
  BY <1>2, <1>4, LRequestStarts, LReleaseCalls DEF LeaseCall
<1>5. ASSUME NEW t \in Threads, LeaseContinue(t) PROVE LeaseInv'
  BY <1>5, LRequestFiles, LIndexFiles, LUnindexFiles, LRequestKeys, LReleaseRemoves, LRequestBreaks, LRequestFileDone,
     LRequestUpdates, LRequestNew, LRequestInserts, LIndexClients, LIndexDone, LUnindexClients, LReleaseNext
  DEF LeaseContinue
<1> QED
  BY <1>1, <1>3, <1>4, <1>5 DEF LeaseNext

\* While requests come one after the other, of two conflicting leases on a file
\* one was told to give up its write caching (request, lease.rs), for every
\* number of clients, keys, files and requests.
THEOREM ConflictsBroken == LeaseSpec => []NoUnbrokenConflict
<1>1. LeaseInv => NoUnbrokenConflict
  <2> SUFFICES ASSUME LeaseInv, ~leaseOverlapped, NEW j \in Keys \ refiled, NEW k \in Keys \ refiled,
                      Sharing(j, k), LConflictsWith(lease[j].state, lease[k].state)
               PROVE  \/ lease[j].pending /\ ~LConflictsWith(lease[j].breakTo, lease[k].state)
                      \/ lease[k].pending /\ ~LConflictsWith(lease[j].state, lease[k].breakTo)
    BY DEF NoUnbrokenConflict
  <2>1. Yields(j, k) \/ Yields(k, j)
    BY DEF LeaseInv, LInTurn, Told
  <2> QED
    BY <2>1, ConflictMeans DEF Yields, LeaseInv, Records
<1> QED
  BY <1>1, LeaseInitial, LeasePreserved, PTL DEF LeaseSpec
-----------------------------------------------------------------------------
(***************************************************************************)
(* The guards of by_file.  A request has one only while it goes through    *)
(* the leases of one file, where it waits for nobody; who waits for an     *)
(* entry has none.                                                         *)
(***************************************************************************)
GuardInv == \A t \in Threads : lloc[t].file # "none" => lpc[t] \in {"keys", "break"}

\* What the steps of LeaseContinue(t) wait for: one of their guards holds.
CanContinue(t) ==
  \/ lpc[t] = "files" /\ (lloc[t].todo = {} \/ \E f \in Files : f \in lloc[t].todo)
  \/ lpc[t] \in {"keys", "release"} /\ (lloc[t].keys = {} \/ \E k \in Keys : k \in lloc[t].keys)
  \/ lpc[t] \in {"break", "insert", "index_client", "unindex_client"}
  \/ /\ lpc[t] \in {"index_files", "unindex_files"}
     /\ lloc[t].todo = {} \/ \E f \in Files : f \in lloc[t].todo /\ LUnguarded(f)

\* While calls are under way, one of them can go on.
SomeCanContinue == LBusy # {} => \E t \in LBusy : CanContinue(t)

\* A step of t concerns the guard of t alone.
LEMMA GuardGoes ==
  ASSUME GuardInv, LTypes, NEW t \in Threads, NEW label, NEW work, LGoto(t, label, work),
         work.file # "none" => label \in {"keys", "break"}
  PROVE  GuardInv'
<1>1. /\ lpc'[t] = label /\ lloc'[t] = work
      /\ \A u \in Threads : u # t => lpc'[u] = lpc[u] /\ lloc'[u] = lloc[u]
  BY DEF LGoto, LTypes
<1> QED
  BY <1>1 DEF GuardInv

\* Calls start without a guard.
LEMMA GuardCalls == ASSUME GuardInv, LTypes, NEW t \in Threads, LeaseCall(t) PROVE GuardInv'
<1>1. ASSUME NEW k \in Keys, NEW want \in Wanted, NEW files \in SUBSET Files, Request(t, k, want, files) PROVE GuardInv'
  <2> DEFINE work == [LNoWork EXCEPT !.key = k, !.want = want, !.granted = want, !.files = files, !.todo = files]
  <2>1. LGoto(t, "files", work) /\ work.file = "none"
    BY <1>1 DEF Request, LNoWork
  <2> HIDE DEF work
  <2> QED
    BY <2>1, GuardGoes
<1>2. ASSUME NEW ks, LGoto(t, "release", [LNoWork EXCEPT !.keys = ks]) PROVE GuardInv'
  <2> DEFINE work == [LNoWork EXCEPT !.keys = ks]
  <2>1. LGoto(t, "release", work) /\ work.file = "none"
    BY <1>2 DEF LNoWork
  <2> HIDE DEF work
  <2> QED
    BY <2>1, GuardGoes
<1>3. ASSUME NEW k \in Keys, Renew(t, k) PROVE GuardInv'
  BY <1>3 DEF Renew, GuardInv
<1> QED
  BY <1>1, <1>2, <1>3 DEF LeaseCall, Release, ExpireLeases, ReleaseClient

\* Only a request that goes through a file takes a guard, and it gives it back.
LEMMA GuardContinues == ASSUME GuardInv, LTypes, NEW t \in Threads, LeaseContinue(t) PROVE GuardInv'
<1>0. lloc[t] \in LWork
  BY DEF LTypes
<1>1. LNoWork.file = "none"
  BY DEF LNoWork
<1>2. lpc[t] \notin {"keys", "break"} => lloc[t].file = "none"
  BY DEF GuardInv
<1>3. ASSUME NEW f \in Files, RequestFile(t, f) PROVE GuardInv'
  <2> DEFINE work == [lloc[t] EXCEPT !.todo = @ \ {f}, !.file = f, !.keys = byFile[f] \ {lloc[t].key}]
  <2>1. LGoto(t, "keys", work)
    BY <1>3 DEF RequestFile
  <2> HIDE DEF work
  <2> QED
    BY <2>1, GuardGoes
<1>4. ASSUME NEW f \in Files, RequestIndexFile(t, f) \/ ReleaseUnindexFile(t, f) PROVE GuardInv'
  <2> DEFINE work == [lloc[t] EXCEPT !.todo = @ \ {f}]
  <2>1. (LGoto(t, "index_files", work) \/ LGoto(t, "unindex_files", work)) /\ lpc[t] \notin {"keys", "break"}
    BY <1>4 DEF RequestIndexFile, ReleaseUnindexFile
  <2>2. work.file = lloc[t].file
    BY <1>0 DEF LWork
  <2> HIDE DEF work
  <2> QED
    BY <1>2, <2>1, <2>2, GuardGoes
<1>5. ASSUME NEW k \in Keys, RequestKey(t, k) PROVE GuardInv'
  <2>1. \E work : LGoto(t, "keys", work) \/ LGoto(t, "break", work)
    BY <1>5 DEF RequestKey
  <2> QED
    BY <2>1, GuardGoes
<1>6. ASSUME NEW k \in Keys, ReleaseRemove(t, k) PROVE GuardInv'
  <2> DEFINE work == [lloc[t] EXCEPT !.keys = @ \ {k}, !.key = k, !.todo = lease[k].files]
             label == IF lease[k].live THEN "unindex_client" ELSE "release"
  <2>1. LGoto(t, label, work) /\ lpc[t] \notin {"keys", "break"}
    BY <1>6 DEF ReleaseRemove
  <2>2. work.file = lloc[t].file
    BY <1>0 DEF LWork
  <2> HIDE DEF work, label
  <2> QED
    BY <1>2, <2>1, <2>2, GuardGoes
<1>7. CASE RequestBreak(t)
  <2>1. \E work : LGoto(t, "keys", work)
    BY <1>7 DEF RequestBreak
  <2> QED
    BY <2>1, GuardGoes
<1>8. CASE RequestFileDone(t)
  <2> DEFINE work == [lloc[t] EXCEPT !.file = "none"]
  <2>1. LGoto(t, "files", work) /\ work.file = "none"
    BY <1>0, <1>8 DEF RequestFileDone, LWork
  <2> HIDE DEF work
  <2> QED
    BY <2>1, GuardGoes
<1>9. CASE RequestUpdate(t) \/ RequestDone(t) \/ ReleaseDone(t)
  BY <1>1, <1>9, GuardGoes DEF RequestUpdate, RequestDone, ReleaseDone, LReturn
<1>10. CASE RequestNew(t) \/ RequestInsert(t) \/ ReleaseUnindexClient(t)
  <2>1. (\E label : LGoto(t, label, lloc[t])) /\ lpc[t] \notin {"keys", "break"}
    BY <1>10 DEF RequestNew, RequestInsert, ReleaseUnindexClient
  <2> QED
    BY <1>2, <2>1, GuardGoes
<1>11. CASE RequestIndexClient(t)
  <2> DEFINE work == [lloc[t] EXCEPT !.todo = lloc[t].files]
  <2>1. LGoto(t, "index_files", work) /\ lpc[t] \notin {"keys", "break"} /\ work.file = lloc[t].file
    BY <1>0, <1>11 DEF RequestIndexClient, LWork
  <2> HIDE DEF work
  <2> QED
    BY <1>2, <2>1, GuardGoes
<1>12. CASE ReleaseNext(t)
  <2> DEFINE work == [lloc[t] EXCEPT !.key = NoKey]
  <2>1. LGoto(t, "release", work) /\ lpc[t] \notin {"keys", "break"} /\ work.file = lloc[t].file
    BY <1>0, <1>12 DEF ReleaseNext, LWork
  <2> HIDE DEF work
  <2> QED
    BY <1>2, <2>1, GuardGoes
<1> QED
  BY <1>3, <1>4, <1>5, <1>6, <1>7, <1>8, <1>9, <1>10, <1>11, <1>12 DEF LeaseContinue

\* Whoever has a guard can go on; when nobody has one, everybody can.
LEMMA GuardsFree == LTypes /\ GuardInv => SomeCanContinue
<1> SUFFICES ASSUME LTypes, GuardInv, NEW t \in LBusy PROVE \E u \in LBusy : CanContinue(u)
  BY DEF SomeCanContinue
<1>1. \A u \in Threads : lloc[u].keys \subseteq Keys /\ lloc[u].todo \subseteq Files /\ lpc[u] \in LLabels
                         /\ lloc[u].file \in Files \cup {"none"}
  BY DEF LTypes, LWork
<1>2. ASSUME NEW u \in Threads, lloc[u].file # "none" PROVE u \in LBusy /\ CanContinue(u)
  <2>1. lpc[u] \in {"keys", "break"}
    BY <1>2 DEF GuardInv
  <2> QED
    BY <1>1, <2>1 DEF LBusy, CanContinue
<1>3. CASE \A u \in Threads : lloc[u].file = "none"
  <2>1. \A f \in Files : LUnguarded(f)
    BY <1>3, LeaseConstants DEF LUnguarded
  <2>2. t \in Threads /\ lpc[t] \in LLabels \ {"idle"}
    BY <1>1 DEF LBusy
  <2>3. CanContinue(t)
    BY <1>1, <2>1, <2>2 DEF CanContinue, LLabels, Scanning, Indexing, Unindexing
  <2> QED
    BY <2>3
<1> QED
  BY <1>2, <1>3

\* The guards of by_file never block all callers (request, release and
\* expire_leases of lease.rs): while calls are under way, one of them has a step
\* whose guard holds, for every number of threads, files and keys.
THEOREM GuardsNeverBlockAll == LeaseSpec => []SomeCanContinue
<1>1. LeaseInit => GuardInv
  BY DEF LeaseInit, GuardInv, LNoWork
<1>2. LTypes /\ GuardInv /\ [LeaseNext]_leaseVars => GuardInv'
  <2> SUFFICES ASSUME LTypes, GuardInv, [LeaseNext]_leaseVars PROVE GuardInv'
    OBVIOUS
  <2>1. CASE UNCHANGED leaseVars
    BY <2>1 DEF leaseVars, GuardInv
  <2>2. ASSUME NEW k \in Keys, LeaseExpires(k) PROVE GuardInv'
    BY <2>2 DEF LeaseExpires, GuardInv
  <2> QED
    BY <2>1, <2>2, GuardCalls, GuardContinues DEF LeaseNext
<1>3. LeaseInv => LTypes
  BY DEF LeaseInv
<1> QED
  BY <1>1, <1>2, <1>3, LeaseInitial, LeasePreserved, GuardsFree, PTL DEF LeaseSpec
=============================================================================
