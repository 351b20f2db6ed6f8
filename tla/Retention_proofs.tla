-------------------------- MODULE Retention_proofs --------------------------
(***************************************************************************)
(* What Retention promises of its archive, for any number of messages,     *)
(* invitations, cleaners and threads, any life of a message and any        *)
(* retention.                                                              *)
(*                                                                         *)
(* The properties speak of rows that are gone; a run removes them on the   *)
(* strength of a selection that is older than its transaction.  So the     *)
(* inductive invariant says what a selection is still worth when it is     *)
(* used: it holds every row the DELETEs are going to remove, except the    *)
(* invitations that were revoked too late for it.                          *)
(***************************************************************************)
EXTENDS Retention, TLAPS

\* What a run takes for the present is past, and only a run in hand is
\* 'running' with a selection.
RunsPast ==
    \A c \in Cleaners :
        /\ run[c].now <= now
        /\ run[c].at # "idle" => run[c].status = "running"

\* The DELETE of the messages finds nothing the SELECT had not found.
SelectionCovers ==
    \A c \in Cleaners :
        run[c].at = "selected" =>
            \A m \in Messages :
                message[m].row = "live" /\ message[m].expires <= run[c].now
                    => m \in run[c].messages

\* The DELETE of the invitations may, but only one that was revoked late.
LettersCover ==
    \A c \in Cleaners :
        run[c].at = "selected" =>
            \A i \in Invitations :
                \/ invitation[i].row = "revoked"
                \/ invitation[i].row = "live" /\ invitation[i].expires <= run[c].now
                => i \in run[c].letters \/ invitation[i].late

\* HistoryKept with a date: the row that is still in the archive was put there
\* with a stamp no older than the removal's, so no purge of the archive that
\* the property has to survive can take it.
HistoryDated ==
    \A m \in Messages :
        /\ message[m].row \in {"retracted", "purged"}
        /\ \A days \in Retentions \cup {Default} : now < message[m].gone + days
        => \E r \in history :
             /\ r.msg = m /\ r.at >= message[m].gone
             /\ message[m].row = "purged" /\ message[m].acked => r.acked

IInv ==
    /\ TypeOK
    /\ RunsPast
    /\ SelectionCovers
    /\ LettersCover
    /\ HistoryDated
    /\ CompletedMeansPurged
    /\ InvitationsArchived

-----------------------------------------------------------------------------
LEMMA InitInvariant == Init => IInv
<1> SUFFICES ASSUME Init PROVE IInv
  OBVIOUS
<1>1. TypeOK
  BY RetentionAssumption DEF Init, TypeOK, Message, Run, Archived
<1>2. RunsPast /\ SelectionCovers /\ LettersCover
  BY DEF Init, RunsPast, SelectionCovers, LettersCover
<1>3. HistoryDated /\ CompletedMeansPurged /\ InvitationsArchived
  BY DEF Init, HistoryDated, CompletedMeansPurged, InvitationsArchived, Expired, Live
<1> QED BY <1>1, <1>2, <1>3 DEF IInv

-----------------------------------------------------------------------------
(* A step that touches neither table nor archive, and changes the run of   *)
(* one cleaner only: Begin, Select, Fail, Crash.                           *)

LEMMA RunStep ==
    ASSUME IInv, NEW c \in Cleaners, NEW r \in Run,
           run' = [run EXCEPT ![c] = r],
           UNCHANGED <<now, channel, message, invitation, history, letters, retracting>>,
           r.now <= now,
           r.at # "idle" => r.status = "running",
           r.at = "selected" => r.messages = Expired(r.now) /\ r.letters = Dead(r.now),
           r.status # "completed"
    PROVE  IInv'
<1> USE DEF IInv
<1>1. /\ run' \in [Cleaners -> Run]
      /\ run'[c] = r
      /\ \A d \in Cleaners \ {c} : run'[d] = run[d]
  BY DEF TypeOK
<1>2. TypeOK'
  BY <1>1 DEF TypeOK
<1>3. RunsPast'
  BY <1>1 DEF RunsPast
<1>4. SelectionCovers'
  BY <1>1 DEF SelectionCovers, Expired, Live
<1>5. LettersCover'
  BY <1>1 DEF LettersCover, Dead
<1>6. HistoryDated'
  BY DEF HistoryDated
<1>7. CompletedMeansPurged'
  BY <1>1 DEF CompletedMeansPurged, Expired, Live
<1>8. InvitationsArchived'
  BY DEF InvitationsArchived
<1> QED BY <1>2, <1>3, <1>4, <1>5, <1>6, <1>7, <1>8

\* A run that ends without its transaction.
LEMMA EndStep ==
    ASSUME IInv, NEW c \in Cleaners, NEW status \in {"failed", "running"}, Ended(c, status),
           UNCHANGED <<now, channel, message, invitation, history, letters, retracting>>
    PROVE  IInv'
<1> DEFINE r == [run[c] EXCEPT !.at = "idle", !.status = status,
                               !.messages = {}, !.letters = {}]
<1>0. run[c] \in Run
  BY DEF IInv, TypeOK
<1>1. r \in Run /\ r.at = "idle" /\ r.status = status /\ r.now = run[c].now
  BY <1>0 DEF Run
<1>2. run' = [run EXCEPT ![c] = r]
  BY DEF Ended, IInv, TypeOK
<1>3. run[c].now <= now
  BY DEF IInv, RunsPast
<1> HIDE DEF r
<1> QED BY <1>1, <1>2, <1>3, RunStep

LEMMA BeginStep ==
    ASSUME IInv, NEW c \in Cleaners, Begin(c)
    PROVE  IInv'
<1> DEFINE r == [run[c] EXCEPT !.at = "begun", !.status = "running", !.now = 0]
<1>0. run[c] \in Run /\ now \in Nat
  BY DEF IInv, TypeOK
<1>1. r \in Run /\ r.at = "begun" /\ r.status = "running" /\ r.now = 0
  BY <1>0 DEF Run
<1>2. run' = [run EXCEPT ![c] = r]
  BY DEF Begin, IInv, TypeOK
<1>3. UNCHANGED <<now, channel, message, invitation, history, letters, retracting>>
  BY DEF Begin
<1> HIDE DEF r
<1>4. 0 <= now
  BY <1>0
<1> QED BY <1>1, <1>2, <1>3, <1>4, RunStep

LEMMA SelectStep ==
    ASSUME IInv, NEW c \in Cleaners, Select(c)
    PROVE  IInv'
<1> DEFINE r == [run[c] EXCEPT !.at = "selected", !.now = now,
                               !.messages = Expired(now), !.letters = Dead(now)]
<1>0. run[c] \in Run /\ now \in Nat /\ run[c].status = "running"
  BY DEF IInv, TypeOK, RunsPast, Select
<1>1. Expired(now) \in SUBSET Messages /\ Dead(now) \in SUBSET Invitations
  BY DEF Expired, Live, Dead
<1>2. r \in Run /\ r.at = "selected" /\ r.status = "running" /\ r.now = now
  BY <1>0, <1>1 DEF Run
<1>3. r.messages = Expired(r.now) /\ r.letters = Dead(r.now)
  BY <1>0, <1>2 DEF Run
<1>4. run' = [run EXCEPT ![c] = r]
  BY DEF Select, IInv, TypeOK
<1>5. UNCHANGED <<now, channel, message, invitation, history, letters, retracting>>
  BY DEF Select
<1> HIDE DEF r
<1>6. r.now <= now
  BY <1>0, <1>2
<1> QED BY <1>2, <1>3, <1>4, <1>5, <1>6, RunStep

-----------------------------------------------------------------------------
(* The transaction of a run.                                               *)

LEMMA WriteStep ==
    ASSUME IInv, NEW c \in Cleaners, Write(c)
    PROVE  IInv'
<1> USE DEF IInv
<1> DEFINE T == run[c].now
<1>1. /\ run[c] \in Run /\ T \in Nat /\ now \in Nat /\ T <= now
      /\ run[c].messages \in SUBSET Messages /\ run[c].letters \in SUBSET Invitations
  BY DEF TypeOK, Run, RunsPast
<1>2. /\ run' \in [Cleaners -> Run]
      /\ run'[c].at = "idle" /\ run'[c].status = "completed" /\ run'[c].now = T
      /\ \A d \in Cleaners \ {c} : run'[d] = run[d]
  BY <1>1 DEF Write, Ended, TypeOK, Run
<1>3. PICK cut : cut = T
  OBVIOUS
<1>4. /\ message' \in [Messages -> Message]
      /\ \A m \in Messages :
           IF message[m].row = "live" /\ message[m].expires <= cut
           THEN /\ message'[m].row = "purged" /\ message'[m].gone = cut
                /\ message'[m].acked = message[m].acked
           ELSE message'[m] = message[m]
  <2>1. message' = [m \in Messages |->
          IF m \in Purged(c)
          THEN [message[m] EXCEPT !.row = "purged", !.gone = cut] ELSE message[m]]
    BY <1>3 DEF Write
  <2>2. \A m \in Messages : m \in Purged(c) <=> message[m].row = "live" /\ message[m].expires <= cut
    BY <1>3 DEF Purged, Expired, Live
  <2>3. cut \in Nat
    BY <1>1, <1>3
  <2>4. message \in [Messages -> Message]
    BY DEF TypeOK
  <2> QED BY <2>1, <2>2, <2>3, <2>4 DEF Message
<1>5. /\ DOMAIN invitation' = Invitations
      /\ \A i \in Invitations :
           /\ invitation'[i].late = invitation[i].late
           /\ invitation'[i] \in [row: {"live", "revoked", "purged", "dropped"},
                                  expires: Nat, late: BOOLEAN]
           /\ IF i \in Dead(cut) THEN invitation'[i].row = "purged"
              ELSE invitation'[i] = invitation[i]
  <2>1. invitation' = [i \in Invitations |->
         IF i \in Dead(cut) THEN [invitation[i] EXCEPT !.row = "purged"] ELSE invitation[i]]
    BY <1>3 DEF Write
  <2> QED BY <2>1 DEF TypeOK
<1>6. /\ channel' = channel /\ now' = now /\ retracting' = retracting
      /\ letters' = letters \cup run[c].letters
      /\ history' = {r \in history \cup ToArchive(c) : ~Over(r)}
      /\ run[c].at = "selected"
  BY DEF Write, LettersArchived
<1>7. ToArchive(c) \subseteq Archived
  <2> SUFFICES ASSUME NEW m \in run[c].messages
               PROVE  [msg |-> m, by |-> c, at |-> T, acked |-> EventsOf(m)] \in Archived
    BY DEF ToArchive
  <2>1. m \in Messages
    BY <1>1
  <2>2. message[m].acked \in BOOLEAN
    BY <2>1 DEF TypeOK, Message
  <2>3. EventsOf(m) \in BOOLEAN
    BY <2>2 DEF EventsOf
  <2> QED BY <1>1, <2>1, <2>3 DEF Archived
<1>8. TypeOK'
  <2>1. invitation' \in [Invitations -> [row: {"live", "revoked", "purged", "dropped"},
                                         expires: Nat, late: BOOLEAN]]
    <3>1. invitation' = [i \in Invitations |-> invitation'[i]]
      BY <1>5 DEF Write
    <3> QED BY <3>1, <1>5
  <2>2. history' \subseteq Archived
    BY <1>6, <1>7 DEF TypeOK
  <2> QED BY <1>1, <1>2, <1>4, <1>6, <2>1, <2>2 DEF TypeOK
<1>9. RunsPast'
  BY <1>1, <1>2, <1>6 DEF RunsPast
<1>10. SelectionCovers'
  BY <1>2, <1>4 DEF SelectionCovers
<1>11. LettersCover'
  BY <1>2, <1>5 DEF LettersCover
<1>12. HistoryDated'
  <2> SUFFICES ASSUME NEW m \in Messages, message'[m].row \in {"retracted", "purged"},
                      \A days \in Retentions \cup {Default} : now < message'[m].gone + days
               PROVE  \E r \in history' :
                         /\ r.msg = m /\ r.at >= message'[m].gone
                         /\ message'[m].row = "purged" /\ message'[m].acked => r.acked
    BY <1>6 DEF HistoryDated
  <2>0. Retention \in Retentions \cup {Default} /\ Retention \in Nat
    BY RetentionAssumption DEF Retention, TypeOK
  <2>1. now < message'[m].gone + Retention
    BY <2>0
  <2>2. CASE message[m].row = "live" /\ message[m].expires <= cut
    <3>1. m \in run[c].messages
      BY <1>3, <1>6, <2>2 DEF SelectionCovers
    <3>2. PICK r : r = [msg |-> m, by |-> c, at |-> cut, acked |-> message[m].acked]
      OBVIOUS
    <3>3. EventsOf(m) = message[m].acked
      BY <2>2 DEF EventsOf, TypeOK, Message
    <3>4. r \in ToArchive(c)
      BY <1>3, <3>1, <3>2, <3>3 DEF ToArchive
    <3>5. r.at = cut /\ r.msg = m /\ r.acked = message[m].acked
      BY <3>2
    <3>6. ~Over(r)
      BY <1>1, <1>3, <1>4, <2>0, <2>1, <2>2, <3>5 DEF Over
    <3>7. r \in history'
      BY <1>6, <3>4, <3>6
    <3>8. message'[m].gone = cut /\ message'[m].acked = message[m].acked
      BY <1>4, <2>2
    <3> QED BY <1>1, <1>3, <3>5, <3>7, <3>8
  <2>3. CASE ~(message[m].row = "live" /\ message[m].expires <= cut)
    <3>1. message'[m] = message[m]
      BY <1>4, <2>3
    <3>2. PICK r \in history :
             /\ r.msg = m /\ r.at >= message[m].gone
             /\ message[m].row = "purged" /\ message[m].acked => r.acked
      BY <3>1 DEF HistoryDated
    <3>3. r.at \in Nat /\ message[m].gone \in Nat
      BY <3>2 DEF TypeOK, Archived, Message
    <3>4. ~Over(r)
      BY <1>1, <2>0, <2>1, <3>1, <3>2, <3>3 DEF Over
    <3> QED BY <1>6, <3>1, <3>2, <3>4
  <2> QED BY <2>2, <2>3
<1>13. CompletedMeansPurged'
  <2> SUFFICES ASSUME NEW d \in Cleaners, run'[d].status = "completed", NEW m \in Messages,
                      message'[m].row = "live", message'[m].expires <= run'[d].now
               PROVE  FALSE
    BY DEF CompletedMeansPurged, Expired, Live
  <2>1. ~(message[m].row = "live" /\ message[m].expires <= cut) /\ message'[m] = message[m]
    BY <1>4
  <2>2. d # c
    BY <1>2, <1>3, <2>1
  <2> QED BY <1>2, <2>1, <2>2 DEF CompletedMeansPurged, Expired, Live
<1>14. InvitationsArchived'
  <2> SUFFICES ASSUME NEW i \in Invitations, invitation'[i].row = "purged"
               PROVE  i \in letters' \/ invitation'[i].late
    BY DEF InvitationsArchived
  <2>1. CASE i \in Dead(cut)
    <3>1. i \in run[c].letters \/ invitation[i].late
      BY <1>3, <1>6, <2>1 DEF Dead, LettersCover
    <3> QED BY <1>5, <1>6, <3>1
  <2>2. CASE i \notin Dead(cut)
    BY <1>5, <1>6, <2>2 DEF InvitationsArchived
  <2> QED BY <2>1, <2>2
<1> QED BY <1>8, <1>9, <1>10, <1>11, <1>12, <1>13, <1>14

-----------------------------------------------------------------------------
(* Retractions.                                                            *)

LEMMA RetractWriteStep ==
    ASSUME IInv, NEW t \in Threads, RetractWrite(t)
    PROVE  IInv'
<1> USE DEF IInv
<1>1. PICK m \in Messages : m = retracting[t]
  BY RetentionAssumption DEF RetractWrite, TypeOK
<1>2. /\ message' \in [Messages -> Message]
      /\ \A o \in Messages \ {m} : message'[o] = message[o]
      /\ IF message[m].row = "live"
         THEN message'[m].row = "retracted" /\ message'[m].gone = now
         ELSE message'[m] = message[m]
  BY <1>1 DEF RetractWrite, Live, TypeOK, Message
<1>3. PICK r : r = [msg |-> m, by |-> t, at |-> now, acked |-> FALSE]
  OBVIOUS
<1>4. r \in Archived /\ r.msg = m /\ r.at = now
  BY <1>3 DEF Archived, TypeOK
<1>5. /\ history' = history \cup {r}
      /\ retracting' \in [Threads -> Messages \cup {None}]
      /\ UNCHANGED <<now, channel, invitation, letters, run>>
  BY <1>1, <1>3 DEF RetractWrite, Kept, TypeOK
<1>6. TypeOK'
  BY <1>2, <1>4, <1>5 DEF TypeOK
<1>7. RunsPast' /\ SelectionCovers' /\ LettersCover'
  BY <1>2, <1>5 DEF RunsPast, SelectionCovers, LettersCover
<1>8. HistoryDated'
  <2> SUFFICES ASSUME NEW o \in Messages, message'[o].row \in {"retracted", "purged"},
                      \A days \in Retentions \cup {Default} : now < message'[o].gone + days
               PROVE  \E x \in history' :
                         /\ x.msg = o /\ x.at >= message'[o].gone
                         /\ message'[o].row = "purged" /\ message'[o].acked => x.acked
    BY <1>5 DEF HistoryDated
  <2>1. CASE o = m /\ message[m].row = "live"
    <3>1. message'[o].row = "retracted" /\ message'[o].gone = now
      BY <1>2, <2>1
    <3> QED BY <1>4, <1>5, <2>1, <3>1 DEF TypeOK
  <2>2. CASE ~(o = m /\ message[m].row = "live")
    <3>1. message'[o] = message[o]
      BY <1>2, <2>2
    <3> QED BY <1>5, <3>1 DEF HistoryDated
  <2> QED BY <2>1, <2>2
<1>9. CompletedMeansPurged'
  BY <1>2, <1>5 DEF CompletedMeansPurged, Expired, Live
<1>10. InvitationsArchived'
  BY <1>5 DEF InvitationsArchived
<1> QED BY <1>6, <1>7, <1>8, <1>9, <1>10

-----------------------------------------------------------------------------
(* Every step that changes one row of the messages, and nothing but it.    *)

\* The row may appear with a life ahead of it, vanish, or get its ack.
LEMMA RowStep ==
    ASSUME IInv, NEW m \in Messages, NEW row \in Message,
           message' = [message EXCEPT ![m] = row],
           UNCHANGED <<now, channel, invitation, history, letters, run, retracting>>,
           row.row \in {"live", "dropped"},
           row.row = "live" => \/ row.expires > now
                               \/ message[m].row = "live" /\ row.expires = message[m].expires
    PROVE  IInv'
<1> USE DEF IInv
<1>1. /\ message' \in [Messages -> Message]
      /\ message'[m] = row
      /\ \A o \in Messages \ {m} : message'[o] = message[o]
  BY DEF TypeOK
<1>2. TypeOK'
  BY <1>1 DEF TypeOK
<1>3. RunsPast' /\ LettersCover' /\ InvitationsArchived'
  BY DEF RunsPast, LettersCover, InvitationsArchived
<1>4. \A c \in Cleaners : run[c].now \in Nat /\ run[c].now <= now
  BY DEF TypeOK, Run, RunsPast
<1>5. now \in Nat /\ row.expires \in Nat
  BY DEF TypeOK, Message
<1>6. SelectionCovers'
  BY <1>1, <1>4, <1>5 DEF SelectionCovers
<1>7. CompletedMeansPurged'
  BY <1>1, <1>4, <1>5 DEF CompletedMeansPurged, Expired, Live
<1>8. HistoryDated'
  BY <1>1 DEF HistoryDated
<1> QED BY <1>2, <1>3, <1>6, <1>7, <1>8

LEMMA PostStep ==
    ASSUME IInv, NEW m \in Messages, Post(m)
    PROVE  IInv'
<1> DEFINE row == [message[m] EXCEPT !.row = "live", !.expires = now + TTL]
<1>1. message[m] \in Message /\ now \in Nat
  BY DEF IInv, TypeOK
<1>0. now + TTL \in Nat /\ now + TTL > now
  BY <1>1, RetentionAssumption
<1>2. row \in Message /\ row.row = "live" /\ row.expires > now
  BY <1>1, <1>0 DEF Message
<1>3. message' = [message EXCEPT ![m] = row]
  BY DEF Post, IInv, TypeOK
<1>4. UNCHANGED <<now, channel, invitation, history, letters, run, retracting>>
  BY DEF Post
<1> HIDE DEF row
<1> QED BY <1>2, <1>3, <1>4, RowStep

LEMMA AckStep ==
    ASSUME IInv, NEW m \in Messages, Ack(m)
    PROVE  IInv'
<1> DEFINE row == [message[m] EXCEPT !.acked = TRUE]
<1>1. message[m] \in Message /\ message[m].row = "live"
  BY DEF IInv, TypeOK, Ack, Live
<1>2. row \in Message /\ row.row = "live" /\ row.expires = message[m].expires
  BY <1>1 DEF Message
<1>3. message' = [message EXCEPT ![m] = row]
  BY DEF Ack, IInv, TypeOK
<1>4. UNCHANGED <<now, channel, invitation, history, letters, run, retracting>>
  BY DEF Ack
<1> HIDE DEF row
<1> QED BY <1>1, <1>2, <1>3, <1>4, RowStep

LEMMA TrimStep ==
    ASSUME IInv, NEW m \in Messages, Trim(m)
    PROVE  IInv'
<1> DEFINE row == [message[m] EXCEPT !.row = "dropped"]
<1>1. message[m] \in Message
  BY DEF IInv, TypeOK
<1>2. row \in Message /\ row.row = "dropped"
  BY <1>1 DEF Message
<1>3. message' = [message EXCEPT ![m] = row]
  BY DEF Trim, IInv, TypeOK
<1>4. UNCHANGED <<now, channel, invitation, history, letters, run, retracting>>
  BY DEF Trim
<1> HIDE DEF row
<1> QED BY <1>2, <1>3, <1>4, RowStep

-----------------------------------------------------------------------------
(* The rest of the world.                                                  *)

LEMMA RevokeStep ==
    ASSUME IInv, NEW i \in Invitations, Revoke(i)
    PROVE  IInv'
<1> USE DEF IInv
<1>1. PICK late \in BOOLEAN :
         late = (\E c \in Cleaners : run[c].at = "selected" /\ i \notin run[c].letters)
  OBVIOUS
<1>2. invitation' = [invitation EXCEPT ![i].row = "revoked", ![i].late = late]
  BY <1>1 DEF Revoke
<1>3. UNCHANGED <<now, channel, message, history, letters, run, retracting>>
  BY DEF Revoke
<1>4. /\ invitation' \in [Invitations -> [row: {"live", "revoked", "purged", "dropped"},
                                          expires: Nat, late: BOOLEAN]]
      /\ invitation'[i].row = "revoked" /\ invitation'[i].late = late
      /\ \A j \in Invitations \ {i} : invitation'[j] = invitation[j]
  BY <1>2 DEF TypeOK
<1>5. TypeOK'
  BY <1>3, <1>4 DEF TypeOK
<1>6. RunsPast' /\ SelectionCovers' /\ HistoryDated'
  BY <1>3 DEF RunsPast, SelectionCovers, HistoryDated
<1>7. CompletedMeansPurged'
  BY <1>3 DEF CompletedMeansPurged, Expired, Live
<1>8. \A c \in Cleaners : run[c].at = "selected" => i \in run[c].letters \/ late
  BY <1>1
<1>9. LettersCover'
  BY <1>3, <1>4, <1>8 DEF LettersCover
<1>10. InvitationsArchived'
  BY <1>3, <1>4 DEF InvitationsArchived
<1> QED BY <1>5, <1>6, <1>7, <1>9, <1>10

LEMMA DeleteChannelStep ==
    ASSUME IInv, DeleteChannel
    PROVE  IInv'
<1> USE DEF IInv
<1>1. UNCHANGED <<now, history, letters, run, retracting>>
  BY DEF DeleteChannel
<1>2. channel' \in [exists: BOOLEAN, retention: Retentions]
  BY DEF DeleteChannel, TypeOK
<1>3. /\ message' \in [Messages -> Message]
      /\ \A m \in Messages :
           IF message[m].row = "live" THEN message'[m].row = "dropped"
           ELSE message'[m] = message[m]
  BY DEF DeleteChannel, TypeOK, Message, Live
<1>4. /\ invitation' \in [Invitations -> [row: {"live", "revoked", "purged", "dropped"},
                                          expires: Nat, late: BOOLEAN]]
      /\ \A i \in Invitations :
           IF invitation[i].row = "purged" THEN invitation'[i] = invitation[i]
           ELSE invitation'[i].row = "dropped"
  BY DEF DeleteChannel, TypeOK
<1>5. TypeOK'
  BY <1>1, <1>2, <1>3, <1>4 DEF TypeOK
<1>6. RunsPast' /\ SelectionCovers' /\ LettersCover'
  BY <1>1, <1>3, <1>4 DEF RunsPast, SelectionCovers, LettersCover
<1>7. HistoryDated'
  BY <1>1, <1>3 DEF HistoryDated
<1>8. CompletedMeansPurged' /\ InvitationsArchived'
  BY <1>1, <1>3, <1>4 DEF CompletedMeansPurged, Expired, Live, InvitationsArchived
<1> QED BY <1>5, <1>6, <1>7, <1>8

LEMMA TickStep ==
    ASSUME IInv, Tick
    PROVE  IInv'
<1> USE DEF IInv
<1>1. now \in Nat /\ now' = now + 1
  BY DEF Tick, TypeOK
<1>2. UNCHANGED <<channel, message, invitation, history, letters, run, retracting>>
  BY DEF Tick
<1>3. TypeOK'
  BY <1>1, <1>2 DEF TypeOK
<1>4. RunsPast'
  BY <1>1, <1>2 DEF RunsPast, TypeOK, Run
<1>5. SelectionCovers' /\ LettersCover' /\ InvitationsArchived'
  BY <1>2 DEF SelectionCovers, LettersCover, InvitationsArchived
<1>6. CompletedMeansPurged'
  BY <1>2 DEF CompletedMeansPurged, Expired, Live
<1>7. HistoryDated'
  <2>1. \A m \in Messages : message[m].gone \in Nat
    BY DEF TypeOK, Message
  <2>2. \A days \in Retentions \cup {Default} : days \in Nat
    BY RetentionAssumption
  <2>3. \A m \in Messages, days \in Retentions \cup {Default} :
          now' < message[m].gone + days => now < message[m].gone + days
    BY <1>1, <2>1, <2>2
  <2> QED BY <1>2, <2>3 DEF HistoryDated
<1> QED BY <1>3, <1>4, <1>5, <1>6, <1>7

\* A step that changes the retention, a thread's place, or nothing.
LEMMA OtherStep ==
    ASSUME IInv, UNCHANGED <<now, message, invitation, history, letters, run>>,
           channel' \in [exists: BOOLEAN, retention: Retentions],
           retracting' \in [Threads -> Messages \cup {None}]
    PROVE  IInv'
BY DEF IInv, TypeOK, RunsPast, SelectionCovers, LettersCover, HistoryDated,
       CompletedMeansPurged, Expired, Live, InvitationsArchived

-----------------------------------------------------------------------------
(* The theorems.                                                           *)

LEMMA NextInvariant == IInv /\ [Next]_vars => IInv'
<1> SUFFICES ASSUME IInv, [Next]_vars PROVE IInv'
  OBVIOUS
<1>0. /\ channel \in [exists: BOOLEAN, retention: Retentions]
      /\ retracting \in [Threads -> Messages \cup {None}]
  BY DEF IInv, TypeOK
<1>1. ASSUME NEW c \in Cleaners, Clean(c) PROVE IInv'
  <2>1. CASE Begin(c)
    BY <2>1, BeginStep
  <2>2. CASE Select(c)
    BY <2>2, SelectStep
  <2>3. CASE Write(c)
    BY <2>3, WriteStep
  <2>4. CASE Fail(c)
    BY <2>4, EndStep DEF Fail
  <2>5. CASE Crash(c)
    BY <2>5, EndStep DEF Crash
  <2> QED BY <1>1, <2>1, <2>2, <2>3, <2>4, <2>5 DEF Clean
<1>2. ASSUME NEW t \in Threads, RetractWrite(t) PROVE IInv'
  BY <1>2, RetractWriteStep
<1>3. ASSUME NEW t \in Threads, RetractDies(t) PROVE IInv'
  BY <1>0, <1>3, OtherStep DEF RetractDies
<1>4. ASSUME NEW t \in Threads, NEW m \in Messages, RetractRead(t, m) PROVE IInv'
  BY <1>0, <1>4, OtherStep DEF RetractRead
<1>5. ASSUME NEW m \in Messages, Post(m) \/ Ack(m) \/ Trim(m) PROVE IInv'
  BY <1>5, PostStep, AckStep, TrimStep
<1>6. ASSUME NEW i \in Invitations, Revoke(i) PROVE IInv'
  BY <1>6, RevokeStep
<1>7. ASSUME NEW days \in Retentions, SetRetention(days) PROVE IInv'
  BY <1>0, <1>7, OtherStep DEF SetRetention
<1>8. CASE DeleteChannel
  BY <1>8, DeleteChannelStep
<1>9. CASE Tick
  BY <1>9, TickStep
<1>10. CASE UNCHANGED vars
  BY <1>0, <1>10, OtherStep DEF vars
<1> QED BY <1>1, <1>2, <1>3, <1>4, <1>5, <1>6, <1>7, <1>8, <1>9, <1>10 DEF Next

\* What a selection is worth, the properties below included, holds always.
THEOREM Invariance == Spec => []IInv
<1> QED BY InitInvariant, NextInvariant, PTL DEF Spec

\* Every variable keeps its type.
THEOREM TypeCorrect == Spec => []TypeOK
<1>1. IInv => TypeOK
  BY DEF IInv
<1> QED BY <1>1, Invariance, PTL

\* What a retraction or a cleanup removed stays in the archive, with its
\* acknowledgement if a cleanup removed it, for any retention the channel has
\* had in the meantime.
THEOREM ArchiveKeeps == Spec => []HistoryKept
<1>1. IInv => HistoryKept
  BY DEF IInv, HistoryDated, HistoryKept
<1> QED BY <1>1, Invariance, PTL

\* A completed run has left nothing behind that it could have seen.
THEOREM CompletedRunsPurge == Spec => []CompletedMeansPurged
<1>1. IInv => CompletedMeansPurged
  BY DEF IInv
<1> QED BY <1>1, Invariance, PTL

\* An invitation is purged unarchived only if it was revoked behind a selection.
THEOREM LettersAreArchived == Spec => []InvitationsArchived
<1>1. IInv => InvitationsArchived
  BY DEF IInv
<1> QED BY <1>1, Invariance, PTL

=============================================================================
