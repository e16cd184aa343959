------------------------------ MODULE TagIndex ------------------------------
(***************************************************************************)
(* What the service promises of its index, whatever goroutines, lists and  *)
(* files it is made of: what it counts as done it has, it has nothing that *)
(* nobody stated, and what it has saved is what it was at one moment.      *)
(*                                                                         *)
(* A fact says that a post has a word, as a pair of a key and a post.  The *)
(* promise is void once a list was misread, which misread says.            *)
(***************************************************************************)
VARIABLES
  stated,  \* the facts that the database has ever stated
  known,   \* the facts that a search finds
  done,    \* the facts that the service will not ask for again
  saved,   \* what it would start with: facts known and done
  lost,    \* the facts that were deleted, or lost with a part of a file
  misread

Nothing == [known |-> {}, done |-> {}]

IndexInit ==
  /\ stated = {} /\ known = {} /\ done = {} /\ lost = {}
  /\ saved = Nothing /\ misread = FALSE

(* The database states a fact.  A row that it changes is to be asked for   *)
(* again, with all that it said before.                                    *)
Say ==
  /\ stated \subseteq stated'
  /\ UNCHANGED <<known, lost>>
  /\ done' \subseteq done
  /\ saved'.known = saved.known /\ saved'.done \subseteq saved.done

Learn ==
  /\ known \subseteq known' /\ known' \subseteq stated
  /\ UNCHANGED <<stated, done, saved, lost>>

Acknowledge ==
  /\ done \subseteq done' /\ done' \subseteq known \cup lost
  /\ UNCHANGED <<stated, known, saved, lost>>

Forget ==
  /\ known' \subseteq known
  /\ lost' = lost \cup (known \ known')
  /\ UNCHANGED <<stated, done, saved>>

StartOver ==
  /\ done' \subseteq done
  /\ UNCHANGED <<stated, known, saved, lost>>

Save ==
  /\ saved' = [known |-> known, done |-> done]
  /\ UNCHANGED <<stated, known, done, lost>>

Restore ==
  /\ known' = saved'.known /\ done' = saved'.done
  /\ \/ saved' = saved /\ lost' = lost
     \/ saved' = Nothing /\ lost' = lost
     \/ /\ saved'.known \subseteq saved.known /\ saved'.done = saved.done
        /\ lost' = lost \cup (saved.known \ saved'.known)
  /\ UNCHANGED stated

IndexNext ==
  \/ misread'
  \/ /\ UNCHANGED misread
     /\ \/ Say
        \/ Learn \/ Acknowledge
        \/ Forget \/ StartOver
        \/ Save \/ Restore

indexVars == <<stated, known, done, saved, lost, misread>>

IndexSpec == IndexInit /\ [][IndexNext]_indexVars

(* What the promise comes to: what is done is known, now and after a       *)
(* restart, and what is known was stated.                                  *)
Honest ==
  \/ misread
  \/ /\ done \subseteq known \cup lost
     /\ saved.done \subseteq saved.known \cup lost
     /\ known \subseteq stated /\ saved.known \subseteq stated
=============================================================================
