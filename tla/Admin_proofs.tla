---------------------------- MODULE Admin_proofs -----------------------------
(***************************************************************************)
(* Theorems about Accounts and Logins, the two ways accounts come, and     *)
(* about Groups and Proxies, what the administrator arranges them with:    *)
(* for any uploads, workers, sessions and requests, any number of restarts *)
(* and deletions, and any groups, keys, proxies, calls and checks.         *)
(***************************************************************************)
EXTENDS Accounts, Logins, Groups, Proxies, FiniteSetTheorems, WellFoundedInduction, TLAPS

\* Every set of numbers that is not empty has a least one.
LEMMA LeastNumber ==
    \A T \in SUBSET Nat : T # {} => \E x \in T : \A y \in T : x <= y
<1> DEFINE R == {ss \in Nat \X Nat : ss[1] < ss[2]}
<1>1. IsWellFoundedOn(R, Nat)
  BY NatLessThanWellFounded DEF OpToRel
<1>2. \A a, b \in Nat : a < b => <<a, b>> \in R
  OBVIOUS
<1> HIDE DEF R
<1> SUFFICES ASSUME NEW T \in SUBSET Nat, T # {}
             PROVE  \E x \in T : \A y \in T : x <= y
  OBVIOUS
<1>3. PICK x \in T : \A y \in T : ~ (<<y, x>> \in R)
  BY <1>1, WFMin
<1>4. ASSUME NEW y \in T
      PROVE  x <= y
  <2>1. x \in Nat /\ y \in Nat /\ ~ (y < x)
    BY <1>2, <1>3
  <2> QED
    BY <2>1
<1> QED
  BY <1>4

\* A set of numbers that does not go beyond n has a largest one.
LEMMA Largest ==
    ASSUME NEW n \in Nat, NEW S, S \subseteq 1..n, S # {}
    PROVE  \E m \in S : \A i \in S : i <= m
<1> DEFINE T == {n - i : i \in S}
<1>1. \A t \in T : t \in Nat
  <2>1. \A i \in S : i \in 1..n
    OBVIOUS
  <2> QED
   BY <2>1
<1>2. T # {}
  <2>1. PICK i \in S : TRUE
    OBVIOUS
  <2> QED
    BY <2>1
<1>5. \A i \in S : n - i \in T
  OBVIOUS
<1>4. \A t \in T : \E m \in S : t = n - m
  OBVIOUS
<1> HIDE DEF T
<1>3. PICK x \in T : \A y \in T : x <= y
  BY <1>1, <1>2, LeastNumber
<1>6. PICK m \in S : x = n - m
  BY <1>4
<1>7. ASSUME NEW i \in S
      PROVE  i <= m
  <2>1. n - m <= n - i /\ i \in 1..n /\ m \in 1..n
    BY <1>3, <1>5, <1>6
  <2> QED
    BY <2>1
<1> QED
  BY <1>7

-----------------------------------------------------------------------------
(* Imports, additions and deletions.                                         *)

Uploads == Range(Batch) \union PageUploads

\* The generation in which an upload is stored.
Generation(of) == IF rotates /\ of \notin Keys THEN 1 ELSE 0

\* A list of accounts: its identifiers have been given, its entries are stored
\* as the authority wants them, no two are of one upload.
IsList(l) ==
    /\ l = [i \in DOMAIN l |-> l[i]]
    /\ DOMAIN l \subseteq 1..(nextId - 1)
    /\ \A i \in DOMAIN l : /\ l[i] = [of |-> l[i].of, gen |-> Generation(l[i].of)]
                           /\ rotates /\ l[i].of \notin Keys => l[i].of \in spent
    /\ \A a, b \in DOMAIN l : l[a].of = l[b].of => a = b

Placed == {"region", "balance", "verify"}
Numbered == {"insert"} \union Placed
Unplaced == {"number", "insert"}

JobStates ==
    [at : {"check", "refresh", "number", "insert"} \union Placed, item : Nat, of : Uploads, id : Nat,
     there : BOOLEAN]

AccountsTypeOK ==
    /\ nextId \in Nat \ {0} /\ next \in Nat \ {0}
    /\ IsList(list) /\ IsList(saved)
    /\ DOMAIN job = Jobs
    /\ \A j \in Jobs : IF job[j].at = "idle" THEN job[j] = NoJob ELSE job[j] \in JobStates
    /\ \A i \in DOMAIN results :
          results[i] \in [status : {"duplicate", "failed", "imported", "verified"},
                          id : Nat, rolledBack : BOOLEAN]

\* An account that was made of an upload is where it was put.
Kept(id, of) ==
    \/ id \in deleted
    \/ /\ id \in DOMAIN list /\ id \in DOMAIN saved
       /\ list[id].of = of /\ saved[id].of = of

\* A job has the number it took, and the account it placed under it, to itself; one
\* that is about to place what a rotating authority gave it is the only one that
\* has it.
JobOK(j) ==
    /\ job[j].at # "idle" /\ j # Page => job[j].of = Batch[job[j].item]
    /\ job[j].at \in Numbered => job[j].id # 0 /\ job[j].id < nextId
    /\ job[j].at = "insert" => job[j].id \notin DOMAIN list \union DOMAIN saved
    /\ job[j].at \in Placed => Kept(job[j].id, job[j].of)
    /\ job[j].at \in Unplaced /\ rotates /\ job[j].of \notin Keys =>
          /\ job[j].of \in spent
          /\ \A i \in DOMAIN list : list[i].of # job[j].of
          /\ \A i \in DOMAIN saved : saved[i].of # job[j].of
    /\ \A k \in Jobs \ {j} :
          /\ job[j].at \in Numbered /\ job[k].at \in Numbered => job[j].id # job[k].id
          /\ job[j].at \in Unplaced /\ job[k].at \in Unplaced /\ rotates
             /\ job[j].of \notin Keys => job[j].of # job[k].of

JobInv == \A j \in Jobs : JobOK(j)

\* What the client was told stays true.
ResultInv ==
    \A i \in DOMAIN results :
        LET r == results[i] IN
        /\ r.status \in {"imported", "verified"} =>
              /\ r.id < nextId /\ Kept(r.id, Batch[i])
              /\ \A j \in Jobs : job[j].at \in Numbered => job[j].id # r.id
        /\ r.rolledBack =>
              /\ r.id < nextId /\ r.id \notin DOMAIN list \union DOMAIN saved
              /\ \A j \in Jobs : job[j].at \in Numbered => job[j].id # r.id

AccountsInv == AccountsTypeOK /\ JobInv /\ ResultInv

-----------------------------------------------------------------------------
\* What a step leaves of the accounts of other jobs, and of those in the results.
StillKept(id, of) ==
    \/ id \in deleted'
    \/ /\ id \in DOMAIN list' /\ id \in DOMAIN saved'
       /\ list'[id].of = of /\ saved'[id].of = of

ListsKeep(others) ==
    /\ IsList(list)' /\ IsList(saved)'
    /\ nextId' \in Nat /\ nextId <= nextId' /\ rotates' = rotates /\ spent \subseteq spent'
    /\ \A k \in others :
          /\ job[k].at \in Placed => StillKept(job[k].id, job[k].of)
          /\ job[k].at = "insert" => job[k].id \notin DOMAIN list' \union DOMAIN saved'
          /\ job[k].at \in Unplaced /\ rotates /\ job[k].of \notin Keys =>
                /\ \A i \in DOMAIN list' : list'[i].of # job[k].of
                /\ \A i \in DOMAIN saved' : saved'[i].of # job[k].of
    /\ \A i \in DOMAIN results :
          /\ results[i].status \in {"imported", "verified"} =>
                StillKept(results[i].id, Batch[i])
          /\ results[i].rolledBack => results[i].id \notin DOMAIN list' \union DOMAIN saved'

ResultStates ==
    [status : {"duplicate", "failed", "imported", "verified"}, id : Nat, rolledBack : BOOLEAN]

\* The job ends with a result that is true.
LEMMA JobEnds ==
    ASSUME AccountsInv, NEW j \in Jobs, ListsKeep(Jobs \ {j}), job[j].at # "idle",
           NEW result \in ResultStates, Ends(j, result),
           result.status \in {"imported", "verified"} =>
              /\ job[j].at \in Placed /\ result.id = job[j].id
              /\ StillKept(job[j].id, job[j].of),
           result.rolledBack =>
              /\ job[j].at \in Placed /\ result.id = job[j].id
              /\ result.id \notin DOMAIN list' \union DOMAIN saved'
    PROVE  AccountsInv'
<1> USE DEF AccountsInv
<1>1. \A k \in Jobs : job[k] = NoJob \/ job[k] \in JobStates
  BY DEF AccountsTypeOK
<1>2. /\ DOMAIN job' = Jobs /\ job'[j] = NoJob
      /\ \A k \in Jobs : job'[k] = job[k] \/ job'[k] = NoJob
      /\ next' \in Nat \ {0}
      /\ \A i \in DOMAIN results' :
            \/ i \in DOMAIN results /\ results'[i] = results[i]
            \/ j # Page /\ i = job[j].item /\ results'[i] = result
  <2>1. Len(Batch) \in Nat
    BY BatchAssumption
  <2> QED
    BY <2>1 DEF Ends, AccountsTypeOK
<1>3. AccountsTypeOK'
  BY <1>1, <1>2 DEF AccountsTypeOK, ListsKeep, ResultStates, NoJob
<1>4. JobInv'
  <2>1. ASSUME NEW k \in Jobs, job'[k] # NoJob
        PROVE  k # j /\ job'[k] = job[k]
    BY <1>2, <2>1
  <2>2. NoJob.at = "idle" /\ "idle" \notin Numbered \union Unplaced
    BY DEF NoJob, Placed, Numbered, Unplaced
  <2>3. \A k \in Jobs : job[k].id \in Nat
    BY <1>1 DEF NoJob, JobStates
  <2> SUFFICES ASSUME NEW k \in Jobs, job'[k] # NoJob
               PROVE  JobOK(k)'
    BY <1>2, <2>2 DEF JobInv, JobOK, Numbered, Unplaced
  <2>4. k # j /\ job'[k] = job[k]
    BY <2>1
  <2>5. \A l \in Jobs : job'[l].at # "idle" => job'[l] = job[l]
    BY <2>1, <2>2
  <2>6. JobOK(k)
    BY DEF JobInv
  <2> QED
    <3>1. k # j /\ JobOK(k) /\ ListsKeep(Jobs \ {j}) /\ nextId \in Nat
      BY <2>4, <2>6 DEF AccountsTypeOK
    <3>2. \A l \in Jobs : job'[l].at \in Numbered \union Unplaced => job'[l] = job[l]
      BY <2>2, <2>5
    <3>3. job[k].at \in Numbered => job[k].id # 0 /\ job[k].id < nextId'
      BY <2>3, <3>1 DEF JobOK, ListsKeep
    <3>4. job[k].at \in Placed => Kept(job[k].id, job[k].of)'
      BY <2>4, <3>1 DEF ListsKeep, StillKept, Kept
    <3>5. job[k].at \in Unplaced /\ rotates' /\ job[k].of \notin Keys =>
             /\ job[k].of \in spent'
             /\ \A i \in DOMAIN list' : list'[i].of # job[k].of
             /\ \A i \in DOMAIN saved' : saved'[i].of # job[k].of
      BY <3>1 DEF JobOK, ListsKeep
    <3>6. job[k].at = "insert" => job[k].id \notin DOMAIN list' \union DOMAIN saved'
      BY <3>1 DEF ListsKeep
    <3>7. rotates' = rotates
      BY <3>1 DEF ListsKeep
    <3>8. ASSUME NEW l \in Jobs \ {k}
          PROVE  /\ job'[k].at \in Numbered /\ job'[l].at \in Numbered => job'[k].id # job'[l].id
                 /\ job'[k].at \in Unplaced /\ job'[l].at \in Unplaced /\ rotates'
                    /\ job'[k].of \notin Keys => job'[k].of # job'[l].of
      BY <2>4, <3>1, <3>2, <3>7 DEF JobOK
    <3>9. job'[k].at # "idle" /\ k # Page => job'[k].of = Batch[job'[k].item]
      BY <2>4, <3>1 DEF JobOK
    <3> QED
      BY <2>4, <3>3, <3>4, <3>5, <3>6, <3>8, <3>9 DEF JobOK, Kept
<1>5. ResultInv'
  <2>1. \A i \in DOMAIN results : results[i].id \in Nat
    BY DEF AccountsTypeOK
  <2>2. \A k \in Jobs : job'[k].at \in Numbered => k # j /\ job'[k] = job[k]
    BY <1>2 DEF NoJob, Placed, Numbered
  <2> SUFFICES ASSUME NEW i \in DOMAIN results'
               PROVE  (LET r == results[i] IN
                       /\ r.status \in {"imported", "verified"} =>
                             /\ r.id < nextId /\ Kept(r.id, Batch[i])
                             /\ \A k \in Jobs : job[k].at \in Numbered => job[k].id # r.id
                       /\ r.rolledBack =>
                             /\ r.id < nextId /\ r.id \notin DOMAIN list \union DOMAIN saved
                             /\ \A k \in Jobs : job[k].at \in Numbered => job[k].id # r.id)'
    BY DEF ResultInv
  <2>3. CASE i \in DOMAIN results /\ results'[i] = results[i]
    BY <2>1, <2>2, <2>3 DEF ResultInv, ListsKeep, StillKept, Kept, AccountsTypeOK
  <2>4. CASE j # Page /\ i = job[j].item /\ results'[i] = result
    <3>1. job[j].of = Batch[i]
      BY <2>4 DEF JobInv, JobOK
    <3>2. job[j].at \in Placed =>
             /\ job[j].at \in Numbered /\ job[j].id < nextId'
             /\ \A k \in Jobs : job'[k].at \in Numbered => job'[k].id # job[j].id
      <4>1. job[j].at \in Placed => job[j].at \in Numbered
        BY DEF Numbered
      <4>2. JobOK(j) /\ job[j].id \in Nat /\ nextId \in Nat
        BY <1>1 DEF JobInv, NoJob, JobStates, AccountsTypeOK
      <4>3. nextId' \in Nat /\ nextId <= nextId'
        BY DEF ListsKeep
      <4> QED
        BY <2>2, <4>1, <4>2, <4>3 DEF JobOK
    <3>3. result.status \in {"imported", "verified"} => Kept(result.id, Batch[i])'
      BY <3>1 DEF StillKept, Kept
    <3> QED
      BY <2>4, <3>2, <3>3
  <2> QED
    BY <1>2, <2>3, <2>4
<1> QED
  BY <1>3, <1>4, <1>5

\* The job goes on.
LEMMA JobGoesOn ==
    ASSUME AccountsInv, NEW j \in Jobs, ListsKeep(Jobs \ {j}), UNCHANGED results,
           NEW q \in JobStates, job' = [job EXCEPT ![j] = q], next' \in Nat \ {0},
           j # Page => q.of = Batch[q.item],
           q.at \in Numbered =>
              /\ q.id # 0 /\ q.id < nextId'
              /\ \/ job[j].at \in Numbered /\ job[j].id = q.id
                 \/ q.id >= nextId,
           q.at = "insert" => q.id \notin DOMAIN list' \union DOMAIN saved',
           q.at \in Placed => StillKept(q.id, q.of),
           q.at \in Unplaced /\ rotates /\ q.of \notin Keys =>
              /\ q.of \in spent'
              /\ \A i \in DOMAIN list' : list'[i].of # q.of
              /\ \A i \in DOMAIN saved' : saved'[i].of # q.of
              /\ \A k \in Jobs \ {j} : job[k].at \in Unplaced => job[k].of # q.of
    PROVE  AccountsInv'
<1> USE DEF AccountsInv
<1>1. /\ DOMAIN job' = Jobs /\ job'[j] = q /\ q.at # "idle"
      /\ \A k \in Jobs \ {j} : job'[k] = job[k]
  BY DEF AccountsTypeOK, JobStates, Placed
<1>2. AccountsTypeOK'
  BY <1>1 DEF AccountsTypeOK, ListsKeep
<1>3. /\ q.id \in Nat /\ nextId \in Nat /\ rotates' = rotates
      /\ nextId' \in Nat /\ nextId <= nextId' /\ spent \subseteq spent'
      /\ \A k \in Jobs : JobOK(k) /\ job[k].id \in Nat
  BY DEF JobStates, JobInv, AccountsTypeOK, NoJob, ListsKeep
<1>4. \A k \in Jobs \ {j} : job[k].at \in Numbered /\ q.at \in Numbered => job[k].id # q.id
  BY <1>3 DEF JobOK
<1>5. \A k \in Jobs \ {j} : job[k].at \in Unplaced /\ q.at \in Unplaced /\ rotates /\ q.of \notin Keys
                            => job[k].of # q.of
  OBVIOUS
<1>6. JobInv'
  <2>1. ASSUME NEW k \in Jobs \ {j}
        PROVE  JobOK(k)'
    <3>1. JobOK(k) /\ job'[k] = job[k] /\ job[k].id \in Nat
      BY <1>1, <1>3
    <3>2. job[k].at \in Numbered => job[k].id # 0 /\ job[k].id < nextId'
      BY <1>3, <3>1 DEF JobOK
    <3>3. /\ job[k].at = "insert" => job[k].id \notin DOMAIN list' \union DOMAIN saved'
          /\ job[k].at \in Placed => Kept(job[k].id, job[k].of)'
      BY DEF ListsKeep, StillKept, Kept
    <3>4. job[k].at \in Unplaced /\ rotates /\ job[k].of \notin Keys =>
             /\ job[k].of \in spent'
             /\ \A i \in DOMAIN list' : list'[i].of # job[k].of
             /\ \A i \in DOMAIN saved' : saved'[i].of # job[k].of
      BY <1>3, <3>1 DEF JobOK, ListsKeep
    <3>5. ASSUME NEW l \in Jobs \ {k}
          PROVE  /\ job'[k].at \in Numbered /\ job'[l].at \in Numbered => job'[k].id # job'[l].id
                 /\ job'[k].at \in Unplaced /\ job'[l].at \in Unplaced /\ rotates'
                    /\ job'[k].of \notin Keys => job'[k].of # job'[l].of
      <4>1. CASE l = j
        BY <1>1, <1>3, <1>4, <1>5, <3>1, <4>1
      <4>2. CASE l # j
        BY <1>1, <1>3, <3>1, <4>2 DEF JobOK
      <4> QED
        BY <4>1, <4>2
    <3>6. job'[k].at # "idle" /\ k # Page => job'[k].of = Batch[job'[k].item]
      BY <3>1 DEF JobOK
    <3> QED
      BY <1>3, <3>1, <3>2, <3>3, <3>4, <3>5, <3>6 DEF JobOK, Kept
  <2>2. JobOK(j)'
    <3>1. q.at \in Placed => Kept(q.id, q.of)'
      BY DEF StillKept, Kept
    <3>2. ASSUME NEW l \in Jobs \ {j}
          PROVE  /\ q.at \in Numbered /\ job'[l].at \in Numbered => q.id # job'[l].id
                 /\ q.at \in Unplaced /\ job'[l].at \in Unplaced /\ rotates'
                    /\ q.of \notin Keys => q.of # job'[l].of
      BY <1>1, <1>3, <1>4, <1>5
    <3> QED
      BY <1>1, <1>3, <3>1, <3>2 DEF JobOK, Kept
  <2> QED
    BY <2>1, <2>2 DEF JobInv
<1>7. ResultInv'
  <2> SUFFICES ASSUME NEW i \in DOMAIN results
               PROVE  (LET r == results[i] IN
                       /\ r.status \in {"imported", "verified"} =>
                             /\ r.id < nextId /\ Kept(r.id, Batch[i])
                             /\ \A k \in Jobs : job[k].at \in Numbered => job[k].id # r.id
                       /\ r.rolledBack =>
                             /\ r.id < nextId /\ r.id \notin DOMAIN list \union DOMAIN saved
                             /\ \A k \in Jobs : job[k].at \in Numbered => job[k].id # r.id)'
    BY DEF ResultInv
  <2>1. results'[i] = results[i] /\ results[i].id \in Nat
    BY DEF AccountsTypeOK
  <2>2. results[i].status \in {"imported", "verified"} \/ results[i].rolledBack =>
           /\ results[i].id < nextId
           /\ \A k \in Jobs : job[k].at \in Numbered => job[k].id # results[i].id
    BY DEF ResultInv
  <2>3. results[i].status \in {"imported", "verified"} \/ results[i].rolledBack =>
           /\ results[i].id < nextId'
           /\ \A k \in Jobs : job'[k].at \in Numbered => job'[k].id # results[i].id
    BY <1>1, <1>3, <2>1, <2>2
  <2> QED
    BY <2>1, <2>3 DEF ListsKeep, StillKept, Kept
<1> QED
  BY <1>2, <1>6, <1>7

\* The lists alone change.
LEMMA OnlyLists ==
    ASSUME AccountsInv, ListsKeep(Jobs), UNCHANGED <<job, results, next>>
    PROVE  AccountsInv'
<1> USE DEF AccountsInv
<1>1. AccountsTypeOK'
  BY DEF AccountsTypeOK, ListsKeep
<1>2. \A k \in Jobs : job[k].id \in Nat /\ JobOK(k)
  BY DEF AccountsTypeOK, JobInv, NoJob, JobStates
<1>3. JobInv'
  <2> SUFFICES ASSUME NEW k \in Jobs
               PROVE  JobOK(k)'
    BY DEF JobInv
  <2> QED
    BY <1>2 DEF JobOK, ListsKeep, StillKept, Kept, AccountsTypeOK
<1>4. ResultInv'
  <2>1. \A i \in DOMAIN results : results[i].id \in Nat
    BY DEF AccountsTypeOK
  <2> QED
    BY <2>1 DEF ResultInv, ListsKeep, StillKept, Kept, AccountsTypeOK
<1> QED
  BY <1>1, <1>3, <1>4

\* A step that may save the list, and changes it not, leaves every account.
LEMMA ListsStay ==
    ASSUME AccountsInv, UNCHANGED <<list, rotates, deleted>>,
           saved' = saved \/ saved' = list, spent \subseteq spent',
           nextId' \in Nat, nextId <= nextId'
    PROVE  /\ ListsKeep(Jobs)
           /\ \A k \in Jobs : /\ ListsKeep(Jobs \ {k})
                              /\ job[k].at \in Placed => StillKept(job[k].id, job[k].of)
<1>1. \A k \in Jobs : JobOK(k)
  BY DEF AccountsInv, JobInv
<1>2. IsList(list)' /\ IsList(saved)'
  BY DEF AccountsInv, AccountsTypeOK, IsList, Generation
<1>3. \A id, of : Kept(id, of) => StillKept(id, of)
  BY DEF Kept, StillKept
<1>4. \A k \in Jobs : job[k].at \in Placed => StillKept(job[k].id, job[k].of)
  BY <1>1, <1>3 DEF JobOK
<1>5. \A k \in Jobs :
         /\ job[k].at = "insert" => job[k].id \notin DOMAIN list' \union DOMAIN saved'
         /\ job[k].at \in Unplaced /\ rotates /\ job[k].of \notin Keys =>
               /\ \A i \in DOMAIN list' : list'[i].of # job[k].of
               /\ \A i \in DOMAIN saved' : saved'[i].of # job[k].of
  BY <1>1 DEF JobOK
<1>6. \A i \in DOMAIN results :
          /\ results[i].status \in {"imported", "verified"} =>
                StillKept(results[i].id, Batch[i])
          /\ results[i].rolledBack => results[i].id \notin DOMAIN list' \union DOMAIN saved'
  BY <1>3 DEF AccountsInv, ResultInv
<1> QED
  BY <1>2, <1>4, <1>5, <1>6 DEF ListsKeep

\* A job that goes on keeps what it is about.
LEMMA GoingOn ==
    ASSUME AccountsInv, NEW j \in Jobs, job[j].at # "idle",
           NEW label \in {"check", "refresh", "number"} \union Placed, GoOn(j, label)
    PROVE  \E q \in JobStates :
              /\ job' = [job EXCEPT ![j] = q]
              /\ q.at = label /\ q.of = job[j].of /\ q.id = job[j].id
              /\ j # Page => q.of = Batch[q.item]
<1>1. job[j] \in JobStates /\ DOMAIN job = Jobs
  BY DEF AccountsInv, AccountsTypeOK
<1>2. j # Page => job[j].of = Batch[job[j].item]
  BY DEF AccountsInv, JobInv, JobOK
<1> DEFINE there == job[j].id \in DOMAIN list
           q == [job[j] EXCEPT !.at = label, !.there = there]
<1>4. job' = [job EXCEPT ![j] = q]
  BY <1>1 DEF GoOn
<1>5. there \in BOOLEAN
  OBVIOUS
<1> HIDE DEF there
<1>3. /\ q \in JobStates /\ q.at = label /\ q.of = job[j].of /\ q.id = job[j].id
      /\ q.item = job[j].item
  BY <1>1, <1>5 DEF JobStates
<1> HIDE DEF q
<1> QED
  BY <1>2, <1>3, <1>4

\* The first look for a duplicate ends the job or sends it on.
LEMMA CheckStep ==
    ASSUME AccountsInv, NEW j \in Jobs, Check(j)
    PROVE  AccountsInv'
<1>1. ListsKeep(Jobs \ {j})
  <2> QED
    BY ListsStay DEF Check, pastVars, AccountsInv, AccountsTypeOK
<1>2. job[j].at = "check" /\ "check" # "idle"
  BY DEF Check, Doing
<1>3. CASE OnList(job[j].of)
  <2>1. Result("duplicate", 0, FALSE) \in ResultStates
    BY DEF Result, ResultStates
  <2> QED
    BY <1>1, <1>2, <1>3, <2>1, JobEnds DEF Check, Result
<1>4. CASE ~OnList(job[j].of)
  <2> DEFINE label == IF job[j].of \in Keys THEN "number" ELSE "refresh"
  <2>1. GoOn(j, label) /\ UNCHANGED <<results, next>>
    BY <1>4 DEF Check
  <2>2. label \notin Numbered /\ label \in {"check", "refresh", "number"} \union Placed
    BY DEF Placed, Numbered
  <2>3. label \in Unplaced => job[j].of \in Keys
    BY DEF Unplaced
  <2> HIDE DEF label
  <2>4. PICK q \in JobStates :
              /\ job' = [job EXCEPT ![j] = q]
              /\ q.at = label /\ q.of = job[j].of /\ q.id = job[j].id
              /\ j # Page => q.of = Batch[q.item]
    BY <1>2, <2>1, <2>2, GoingOn
  <2>5. next' \in Nat \ {0}
    BY <2>1 DEF AccountsInv, AccountsTypeOK
  <2> QED
    BY <1>1, <2>1, <2>2, <2>3, <2>4, <2>5, JobGoesOn DEF Numbered
<1> QED
  BY <1>3, <1>4

\* A refresh token that is used is spent: nobody else has what it was given for.
LEMMA RefreshStep ==
    ASSUME AccountsInv, NEW j \in Jobs, Refresh(j)
    PROVE  AccountsInv'
<1>1. ListsKeep(Jobs \ {j})
  <2>1. spent \subseteq spent'
    BY DEF Refresh
  <2> QED
    BY <2>1, ListsStay DEF Refresh, pastVars, AccountsInv, AccountsTypeOK
<1>2. job[j].at = "refresh" /\ "refresh" # "idle"
  BY DEF Refresh, Doing
<1>3. CASE Ends(j, Result("failed", 0, FALSE))
  <2>1. Result("failed", 0, FALSE) \in ResultStates
    BY DEF Result, ResultStates
  <2> QED
    BY <1>1, <1>2, <1>3, <2>1, JobEnds DEF Result
<1>4. CASE /\ job[j].of \notin spent
           /\ spent' = (IF rotates THEN spent \union {job[j].of} ELSE spent)
           /\ GoOn(j, "number") /\ UNCHANGED <<results, next>>
  <2>1. PICK q \in JobStates :
              /\ job' = [job EXCEPT ![j] = q]
              /\ q.at = "number" /\ q.of = job[j].of /\ q.id = job[j].id
              /\ j # Page => q.of = Batch[q.item]
    BY <1>2, <1>4, GoingOn
  <2>2. next' \in Nat \ {0}
    BY <1>4 DEF AccountsInv, AccountsTypeOK
  <2>3. ASSUME rotates, q.of \notin Keys
        PROVE  /\ q.of \in spent'
               /\ \A i \in DOMAIN list' : list'[i].of # q.of
               /\ \A i \in DOMAIN saved' : saved'[i].of # q.of
               /\ \A k \in Jobs \ {j} : job[k].at \in Unplaced => job[k].of # q.of
    <3>1. UNCHANGED <<list, saved>>
      BY DEF Refresh
    <3>2. \A k \in Jobs : job[k].at \in Unplaced /\ job[k].of \notin Keys => job[k].of \in spent
      BY <2>3 DEF AccountsInv, JobInv, JobOK
    <3>3. IsList(list) /\ IsList(saved)
      BY DEF AccountsInv, AccountsTypeOK
    <3> QED
      BY <1>4, <2>1, <2>3, <3>1, <3>2, <3>3 DEF IsList
  <2>4. q.at \notin Numbered
    BY <2>1 DEF Placed, Numbered
  <2> QED
    BY <1>1, <1>4, <2>1, <2>2, <2>3, <2>4, JobGoesOn DEF Numbered
<1> QED
  BY <1>3, <1>4 DEF Refresh

\* A number that is taken is a new one.
LEMMA TakeNumberStep ==
    ASSUME AccountsInv, NEW j \in Jobs, TakeNumber(j)
    PROVE  AccountsInv'
<1>1. /\ job[j].at = "number" /\ "number" # "idle" /\ nextId' = nextId + 1
      /\ UNCHANGED <<list, saved, rotates, spent, deleted, results, next>>
      /\ job' = [job EXCEPT ![j].at = "insert", ![j].id = nextId]
  BY DEF TakeNumber, Doing, pastVars
<1>2. /\ nextId \in Nat \ {0} /\ job[j] \in JobStates /\ DOMAIN job = Jobs /\ next \in Nat \ {0}
      /\ JobOK(j) /\ IsList(list) /\ IsList(saved)
  BY <1>1 DEF AccountsInv, AccountsTypeOK, JobInv
<1>3. ListsKeep(Jobs \ {j})
  BY <1>1, <1>2, ListsStay
<1> DEFINE q == [job[j] EXCEPT !.at = "insert", !.id = nextId]
<1>4. job' = [job EXCEPT ![j] = q]
  BY <1>1, <1>2
<1>5. /\ q \in JobStates /\ q.at = "insert" /\ q.of = job[j].of /\ q.id = nextId
      /\ q.item = job[j].item
  BY <1>2 DEF JobStates
<1> HIDE DEF q
<1>6. /\ q.id # 0 /\ q.id < nextId' /\ q.id >= nextId
      /\ q.id \notin DOMAIN list' \union DOMAIN saved'
  BY <1>1, <1>2, <1>5 DEF IsList
<1>7. ASSUME rotates, q.of \notin Keys
      PROVE  /\ q.of \in spent'
             /\ \A i \in DOMAIN list' : list'[i].of # q.of
             /\ \A i \in DOMAIN saved' : saved'[i].of # q.of
             /\ \A k \in Jobs \ {j} : job[k].at \in Unplaced => job[k].of # q.of
  <2>1. job[j].at \in Unplaced
    BY <1>1 DEF Unplaced
  <2> QED
    BY <1>1, <1>2, <1>5, <1>7, <2>1 DEF JobOK
<1>8. q.at \notin Placed /\ next' \in Nat \ {0} /\ (j # Page => q.of = Batch[q.item])
  BY <1>1, <1>2, <1>5 DEF Placed, JobOK
<1> QED
  BY <1>1, <1>3, <1>4, <1>5, <1>6, <1>7, <1>8, JobGoesOn

\* A job whose account is placed goes on or ends without a change of the lists.
LEMMA PlacedGoesOn ==
    ASSUME AccountsInv, NEW j \in Jobs, job[j].at \in Placed,
           UNCHANGED <<list, nextId, rotates, spent, deleted>>,
           saved' = saved \/ saved' = list,
           NEW label \in Placed, GoOn(j, label), UNCHANGED <<results, next>>
    PROVE  AccountsInv'
<1>1. ListsKeep(Jobs \ {j}) /\ StillKept(job[j].id, job[j].of)
  BY ListsStay DEF AccountsInv, AccountsTypeOK
<1>2. PICK q \in JobStates :
              /\ job' = [job EXCEPT ![j] = q]
              /\ q.at = label /\ q.of = job[j].of /\ q.id = job[j].id
              /\ j # Page => q.of = Batch[q.item]
  BY GoingOn DEF Placed
<1>3. next' \in Nat \ {0}
  BY DEF AccountsInv, AccountsTypeOK
<1>4. q.id # 0 /\ q.id < nextId' /\ job[j].at \in Numbered
  BY <1>2 DEF AccountsInv, JobInv, JobOK, Numbered
<1>5. label \notin Unplaced
  BY DEF Placed, Unplaced
<1>6. label # "insert"
  BY DEF Placed
<1> QED
  BY <1>1, <1>2, <1>3, <1>4, <1>5, <1>6, JobGoesOn

\* A job whose account is placed ends, and what the client is told of it is true.
LEMMA PlacedEnds ==
    ASSUME AccountsInv, NEW j \in Jobs, job[j].at \in Placed,
           UNCHANGED <<list, nextId, rotates, spent, deleted>>,
           saved' = saved \/ saved' = list,
           NEW status \in {"imported", "verified", "added"},
           Ends(j, Result(status, job[j].id, FALSE)),
           j = Page \/ status # "added"
    PROVE  AccountsInv'
<1>1. ListsKeep(Jobs \ {j}) /\ StillKept(job[j].id, job[j].of)
  BY ListsStay DEF AccountsInv, AccountsTypeOK
<1>2. job[j].at # "idle" /\ job[j].id \in Nat
  BY DEF Placed, AccountsInv, AccountsTypeOK, JobStates
<1> DEFINE told == IF j = Page THEN Result("failed", 0, FALSE) ELSE Result(status, job[j].id, FALSE)
<1>3. Ends(j, told)
  BY DEF Ends
<1>4. told \in ResultStates
  BY <1>2 DEF Result, ResultStates
<1>5. told.rolledBack = FALSE /\ (told.status = "failed" \/ told.id = job[j].id)
  BY DEF Result
<1> HIDE DEF told
<1> QED
  BY <1>1, <1>2, <1>3, <1>4, <1>5, JobEnds

\* What a job does with its account once it is there.
LEMMA PlacedStep ==
    ASSUME AccountsInv, NEW j \in Jobs, Region(j) \/ Balance(j) \/ Verified(j)
    PROVE  AccountsInv'
<1>1. job[j].at \in Placed
  BY DEF Region, Balance, Verified, Doing, Placed
<1>2. CASE Region(j)
  <2>1. /\ UNCHANGED <<list, nextId, rotates, spent, deleted>>
        /\ saved' = saved \/ saved' = list
    BY <1>2 DEF Region, Saved, SaveFails, pastVars
  <2>2. \/ GoOn(j, "balance") /\ UNCHANGED <<results, next>>
        \/ Ends(j, Result("imported", job[j].id, FALSE))
    BY <1>2 DEF Region
  <2>3. "balance" \in Placed
    BY DEF Placed
  <2> QED
    BY <1>1, <2>1, <2>2, <2>3, PlacedGoesOn, PlacedEnds
<1>3. CASE Balance(j)
  <2>1. UNCHANGED <<list, nextId, rotates, spent, deleted, saved>>
    BY <1>3 DEF Balance, pastVars
  <2>2. \/ GoOn(j, "verify") /\ UNCHANGED <<results, next>>
        \/ j = Page /\ Ends(j, Result("added", job[j].id, FALSE))
    BY <1>3 DEF Balance
  <2>3. "verify" \in Placed
    BY DEF Placed
  <2> QED
    BY <1>1, <2>1, <2>2, <2>3, PlacedGoesOn, PlacedEnds
<1>4. CASE Verified(j)
  <2>1. /\ UNCHANGED <<list, nextId, rotates, spent, deleted, saved>>
        /\ Ends(j, Result("verified", job[j].id, FALSE))
    BY <1>4 DEF Verified, pastVars
  <2> QED
    BY <1>1, <2>1, PlacedEnds
<1> QED
  BY <1>2, <1>3, <1>4

\* What has been saved is as good a list as the one that was saved.
LEMMA SameList ==
    ASSUME IsList(list)', saved' = list', UNCHANGED rotates
    PROVE  IsList(saved)'
  <1>1. /\ list' = [i \in DOMAIN list' |-> list'[i]]
        /\ DOMAIN list' \subseteq 1..(nextId' - 1)
    BY DEF IsList
  <1>2. \A i \in DOMAIN list' :
           /\ list'[i] = [of |-> list'[i].of, gen |-> Generation(list'[i].of)]
           /\ rotates' /\ list'[i].of \notin Keys => list'[i].of \in spent'
    BY DEF IsList, Generation
  <1>3. \A a, b \in DOMAIN list' : list'[a].of = list'[b].of => a = b
    BY DEF IsList
  <1>4. /\ saved' = [i \in DOMAIN saved' |-> saved'[i]]
        /\ DOMAIN saved' \subseteq 1..(nextId' - 1)
    BY <1>1
  <1>5. \A i \in DOMAIN saved' :
           /\ saved'[i] = [of |-> saved'[i].of, gen |-> Generation(saved'[i].of)]
           /\ rotates' /\ saved'[i].of \notin Keys => saved'[i].of \in spent'
    BY <1>2
  <1>6. \A a, b \in DOMAIN saved' : saved'[a].of = saved'[b].of => a = b
    BY <1>3
  <1> QED
    BY <1>4, <1>5, <1>6 DEF IsList, Generation

\* What Insert adds is one more list of accounts.
LEMMA OneMore ==
    ASSUME AccountsInv, NEW j \in Jobs, job[j].at = "insert", ~OnList(job[j].of),
           list' = [i \in DOMAIN list \union {job[j].id} |->
                       IF i = job[j].id THEN Stored(j) ELSE list[i]],
           saved' = list' \/ saved' = saved,
           UNCHANGED <<nextId, rotates, spent, deleted>>
    PROVE  /\ ListsKeep(Jobs \ {j})
           /\ job[j].id \in DOMAIN list' /\ list'[job[j].id].of = job[j].of
<1>1. /\ nextId \in Nat \ {0} /\ IsList(list) /\ IsList(saved)
      /\ \A k \in Jobs : JobOK(k)
  BY DEF AccountsInv, AccountsTypeOK, JobInv
<1>0. job[j].at \in Numbered /\ job[j].at \in Unplaced /\ "insert" \in Numbered
  BY DEF Numbered, Unplaced
<1>11. PICK id \in Nat \ {0} : id = job[j].id /\ id < nextId
  BY <1>0, <1>1 DEF JobOK, AccountsInv, AccountsTypeOK, JobStates
<1> DEFINE of == job[j].of
<1>2. Stored(j) = [of |-> of, gen |-> Generation(of)]
  BY DEF Stored, Generation
<1>3. /\ DOMAIN list' = DOMAIN list \union {id}
      /\ list'[id] = [of |-> of, gen |-> Generation(of)]
      /\ \A i \in DOMAIN list : i # id /\ list'[i] = list[i]
  <2>1. id \notin DOMAIN list
    BY <1>1, <1>11 DEF JobOK
  <2> QED
    BY <1>2, <1>11, <2>1
<1>4. rotates /\ of \notin Keys => of \in spent
  BY <1>0, <1>1 DEF JobOK
<1>5. \A i \in DOMAIN list : list[i].of # of
  <2>1. CASE rotates /\ of \notin Keys
    BY <1>0, <1>1, <2>1 DEF JobOK
  <2>2. CASE ~(rotates /\ of \notin Keys)
    <3>1. ASSUME NEW i \in DOMAIN list, list[i].of = of
          PROVE  FALSE
      <4>1. list[i] = [of |-> of, gen |-> 0]
        BY <1>1, <2>2, <3>1 DEF IsList, Generation
      <4> QED
        BY <4>1 DEF OnList
    <3> QED
      BY <3>1
  <2> QED
    BY <2>1, <2>2
<1>6. IsList(list)'
  <2>1. DOMAIN list' \subseteq 1..(nextId' - 1)
    BY <1>1, <1>3, <1>11 DEF IsList
  <2>2. \A i \in DOMAIN list' :
           /\ list'[i] = [of |-> list'[i].of, gen |-> Generation(list'[i].of)]
           /\ rotates /\ list'[i].of \notin Keys => list'[i].of \in spent
    BY <1>1, <1>3, <1>4 DEF IsList
  <2>3. \A a, b \in DOMAIN list' : list'[a].of = list'[b].of => a = b
    BY <1>1, <1>3, <1>5 DEF IsList
  <2>4. list' = [i \in DOMAIN list' |-> list'[i]]
    BY <1>3
  <2>5. (rotates' <=> rotates) /\ spent' = spent
    OBVIOUS
  <2>7. \A i \in DOMAIN list' :
           /\ list'[i] = [of |-> list'[i].of,
                         gen |-> IF rotates' /\ list'[i].of \notin Keys THEN 1 ELSE 0]
           /\ rotates' /\ list'[i].of \notin Keys => list'[i].of \in spent'
    BY <2>2, <2>5 DEF Generation
  <2> QED
    BY <2>1, <2>3, <2>4, <2>7 DEF IsList, Generation
<1>7. IsList(saved)'
  <2>1. CASE saved' = list'
    BY <1>6, <2>1, SameList
  <2>2. CASE saved' = saved
    BY <1>1, <2>2 DEF IsList, Generation
  <2> QED
    BY <2>1, <2>2
<1>8. \A x, o : Kept(x, o) => StillKept(x, o)
  BY <1>3 DEF Kept, StillKept
<1>9. \A k \in Jobs \ {j} :
          /\ job[k].at \in Placed => StillKept(job[k].id, job[k].of)
          /\ job[k].at = "insert" => job[k].id \notin DOMAIN list' \union DOMAIN saved'
          /\ job[k].at \in Unplaced /\ rotates /\ job[k].of \notin Keys =>
                /\ \A i \in DOMAIN list' : list'[i].of # job[k].of
                /\ \A i \in DOMAIN saved' : saved'[i].of # job[k].of
  <2> SUFFICES ASSUME NEW k \in Jobs \ {j}
               PROVE  /\ job[k].at \in Placed => StillKept(job[k].id, job[k].of)
                      /\ job[k].at = "insert" => job[k].id \notin DOMAIN list' \union DOMAIN saved'
                      /\ job[k].at \in Unplaced /\ rotates /\ job[k].of \notin Keys =>
                            /\ \A i \in DOMAIN list' : list'[i].of # job[k].of
                            /\ \A i \in DOMAIN saved' : saved'[i].of # job[k].of
    OBVIOUS
  <2>1. JobOK(k)
    BY <1>1
  <2>2. job[k].at \in Placed => StillKept(job[k].id, job[k].of)
    BY <1>8, <2>1 DEF JobOK
  <2>4. job[k].at = "insert" => job[k].id \notin DOMAIN list' \union DOMAIN saved'
    <3>1. job[k].at = "insert" => job[k].id # id
      BY <1>0, <1>1, <1>11 DEF JobOK
    <3> QED
      BY <1>3, <2>1, <3>1 DEF JobOK
  <2>3. ASSUME job[k].at \in Unplaced, rotates, job[k].of \notin Keys
        PROVE  /\ \A i \in DOMAIN list' : list'[i].of # job[k].of
               /\ \A i \in DOMAIN saved' : saved'[i].of # job[k].of
    <3>1. of # job[k].of
      BY <1>0, <2>1, <2>3 DEF JobOK
    <3> QED
      BY <1>3, <2>1, <2>3, <3>1 DEF JobOK
  <2> QED
    BY <2>2, <2>3, <2>4
<1>10. \A i \in DOMAIN results :
          /\ results[i].status \in {"imported", "verified"} =>
                StillKept(results[i].id, Batch[i])
          /\ results[i].rolledBack => results[i].id \notin DOMAIN list' \union DOMAIN saved'
  <2>1. \A i \in DOMAIN results : results[i].rolledBack => results[i].id # id
    BY <1>0, <1>11 DEF AccountsInv, ResultInv
  <2> QED
    BY <1>3, <1>8, <2>1 DEF AccountsInv, ResultInv
<1> QED
  <2>1. nextId' \in Nat /\ nextId <= nextId' /\ rotates' = rotates /\ spent \subseteq spent'
    BY <1>1
  <2>2. job[j].id \in DOMAIN list' /\ list'[job[j].id].of = job[j].of
    BY <1>3, <1>11
  <2> QED
    BY <1>6, <1>7, <1>9, <1>10, <2>1, <2>2 DEF ListsKeep

\* The account is inserted and saved, or the job ends without one.
LEMMA InsertStep ==
    ASSUME AccountsInv, NEW j \in Jobs, Insert(j)
    PROVE  AccountsInv'
<1>1. /\ job[j].at = "insert" /\ job[j].at # "idle" /\ nextId' = nextId
      /\ UNCHANGED <<rotates, spent, deleted>>
  BY DEF Insert, Doing
<1>2. /\ nextId \in Nat \ {0} /\ job[j] \in JobStates /\ DOMAIN job = Jobs
      /\ next \in Nat \ {0}
      /\ j # Page => job[j].of = Batch[job[j].item]
  BY <1>1 DEF AccountsInv, AccountsTypeOK, JobInv, JobOK
<1>3. \A s \in {"duplicate", "failed"} : Result(s, 0, FALSE) \in ResultStates
  BY DEF Result, ResultStates
<1>4. CASE OnList(job[j].of)
  <2>1. UNCHANGED <<list, saved>> /\ Ends(j, Result("duplicate", 0, FALSE))
    BY <1>4 DEF Insert
  <2>2. ListsKeep(Jobs \ {j})
    BY <1>1, <1>2, <2>1, ListsStay
  <2> QED
    BY <1>1, <1>3, <2>1, <2>2, JobEnds DEF Result
<1>5. CASE ~OnList(job[j].of)
  <2>1. /\ list' = [i \in DOMAIN list \union {job[j].id} |->
                       IF i = job[j].id THEN Stored(j) ELSE list[i]]
        /\ saved' = list' \/ saved' = saved
    BY <1>5 DEF Insert, Lists, Inserted, Saved, SaveFails
  <2>2. /\ ListsKeep(Jobs \ {j})
        /\ job[j].id \in DOMAIN list' /\ list'[job[j].id].of = job[j].of
    BY <1>1, <1>5, <2>1, OneMore
  <2>3. CASE Ends(j, Result("failed", 0, FALSE))
    BY <1>1, <1>3, <2>2, <2>3, JobEnds DEF Result
  <2>4. CASE /\ saved' = list' /\ UNCHANGED <<results, next>>
             /\ job' = [job EXCEPT ![j].at = "region", ![j].there = TRUE]
    <3> DEFINE q == [job[j] EXCEPT !.at = "region", !.there = TRUE]
    <3>1. job' = [job EXCEPT ![j] = q]
      BY <1>2, <2>4
    <3>2. /\ q \in JobStates /\ q.at = "region" /\ q.of = job[j].of /\ q.id = job[j].id
          /\ q.item = job[j].item
      BY <1>2 DEF JobStates, Placed
    <3> HIDE DEF q
    <3>3. StillKept(q.id, q.of)
      BY <2>2, <2>4, <3>2 DEF StillKept
    <3>4. job[j].at \in Numbered /\ q.at \notin Unplaced /\ q.at # "insert"
      BY <1>1, <3>2 DEF Numbered, Unplaced
    <3>5. next' \in Nat \ {0} /\ q.id # 0 /\ q.id < nextId'
      BY <1>1, <1>2, <2>4, <3>2, <3>4 DEF AccountsInv, JobInv, JobOK
    <3>6. j # Page => q.of = Batch[q.item]
      BY <1>2, <3>2
    <3> QED
      BY <2>2, <2>4, <3>1, <3>2, <3>3, <3>4, <3>5, <3>6, JobGoesOn
  <2> QED
    BY <1>5, <2>3, <2>4 DEF Insert, Inserted, Saved
<1> QED
  BY <1>4, <1>5

\* An account is taken off the list, and off the file when it is saved.
LEMMA TakenOff ==
    ASSUME AccountsInv, NEW id, NEW others \in SUBSET Jobs,
           list' = Without(list, id), saved' = list' \/ saved' = saved,
           UNCHANGED <<nextId, rotates, spent>>,
           deleted \subseteq deleted',
           \/ id \in deleted'
           \/ /\ \A k \in others : job[k].at \in Placed => job[k].id # id
              /\ \A i \in DOMAIN results :
                    results[i].status \in {"imported", "verified"} => results[i].id # id
    PROVE  ListsKeep(others)
<1>1. /\ nextId \in Nat \ {0} /\ IsList(list) /\ IsList(saved)
      /\ \A k \in Jobs : JobOK(k)
  BY DEF AccountsInv, AccountsTypeOK, JobInv
<1>2. /\ list' = [i \in DOMAIN list \ {id} |-> list[i]]
      /\ DOMAIN list' = DOMAIN list \ {id}
      /\ \A i \in DOMAIN list' : list'[i] = list[i]
  BY DEF Without, Restrict
<1>3. IsList(list)'
  BY <1>1, <1>2 DEF IsList, Generation
<1>4. IsList(saved)'
  <2>1. CASE saved' = list'
    BY <1>3, <2>1, SameList
  <2>2. CASE saved' = saved
    BY <1>1, <2>2 DEF IsList, Generation
  <2> QED
    BY <2>1, <2>2
<1>5. \A i, of : Kept(i, of) /\ (id \in deleted' \/ i # id) => StillKept(i, of)
  BY <1>2 DEF Kept, StillKept
<1>6. \A k \in others :
          /\ job[k].at \in Placed => StillKept(job[k].id, job[k].of)
          /\ job[k].at = "insert" => job[k].id \notin DOMAIN list' \union DOMAIN saved'
          /\ job[k].at \in Unplaced /\ rotates /\ job[k].of \notin Keys =>
                /\ \A i \in DOMAIN list' : list'[i].of # job[k].of
                /\ \A i \in DOMAIN saved' : saved'[i].of # job[k].of
  <2> SUFFICES ASSUME NEW k \in others
               PROVE  /\ job[k].at \in Placed => StillKept(job[k].id, job[k].of)
                      /\ job[k].at = "insert" => job[k].id \notin DOMAIN list' \union DOMAIN saved'
                      /\ job[k].at \in Unplaced /\ rotates /\ job[k].of \notin Keys =>
                            /\ \A i \in DOMAIN list' : list'[i].of # job[k].of
                            /\ \A i \in DOMAIN saved' : saved'[i].of # job[k].of
    OBVIOUS
  <2>1. JobOK(k)
    BY <1>1
  <2>2. job[k].at \in Placed => StillKept(job[k].id, job[k].of)
    BY <1>5, <2>1 DEF JobOK
  <2> QED
    BY <1>2, <2>1, <2>2 DEF JobOK
<1>7. \A i \in DOMAIN results :
          /\ results[i].status \in {"imported", "verified"} =>
                StillKept(results[i].id, Batch[i])
          /\ results[i].rolledBack => results[i].id \notin DOMAIN list' \union DOMAIN saved'
  BY <1>2, <1>5 DEF AccountsInv, ResultInv
<1> QED
  BY <1>1, <1>3, <1>4, <1>6, <1>7 DEF ListsKeep

\* An import that is rolled back takes its account off, and nobody else's.
LEMMA NotVerifiedStep ==
    ASSUME AccountsInv, NEW j \in Jobs, NotVerified(j)
    PROVE  AccountsInv'
<1> DEFINE id == job[j].id
<1>1. job[j].at \in Placed /\ job[j].at # "idle" /\ JobOK(j)
  BY DEF NotVerified, Doing, Placed, AccountsInv, JobInv
<1>2. id \in Nat /\ id < nextId
  BY <1>1 DEF AccountsInv, AccountsTypeOK, JobStates, JobOK, Numbered
<1>3. /\ list' = Without(list, id) /\ (saved' = list' \/ saved' = saved)
      /\ UNCHANGED <<nextId, rotates, spent, deleted>>
  BY DEF NotVerified, Saved, SaveFails, pastVars
<1>4. /\ \A k \in Jobs \ {j} : job[k].at \in Placed => job[k].id # id
      /\ \A i \in DOMAIN results :
            results[i].status \in {"imported", "verified"} => results[i].id # id
  BY <1>1 DEF AccountsInv, JobOK, ResultInv, Numbered
<1>5. ListsKeep(Jobs \ {j})
  <2>1. deleted \subseteq deleted' /\ Jobs \ {j} \in SUBSET Jobs
    BY <1>3
  <2> HIDE DEF id
  <2> QED
    BY <1>3, <1>4, <2>1, TakenOff
<1>6. \A b \in BOOLEAN : Result("failed", id, b) \in ResultStates
  BY <1>2 DEF Result, ResultStates
<1>7. CASE saved' = list' /\ Ends(j, Result("failed", id, TRUE))
  <2>1. id \notin DOMAIN list' \union DOMAIN saved'
    BY <1>3, <1>7 DEF Without, Restrict
  <2> QED
    BY <1>1, <1>5, <1>6, <1>7, <2>1, JobEnds DEF Result
<1>8. CASE Ends(j, Result("failed", id, FALSE))
  BY <1>1, <1>5, <1>6, <1>8, JobEnds DEF Result
<1> QED
  BY <1>7, <1>8 DEF NotVerified, Saved

\* An administrator deletes an account: from then on nothing is promised of it.
LEMMA DeleteStep ==
    ASSUME AccountsInv, NEW id, Delete(id)
    PROVE  AccountsInv'
<1>1. /\ list' = Without(list, id) /\ (saved' = list' \/ saved' = saved)
      /\ UNCHANGED <<nextId, rotates, spent>> /\ deleted \subseteq deleted' /\ id \in deleted'
      /\ UNCHANGED <<job, results, next>>
  BY DEF Delete, Saved, SaveFails
<1>2. ListsKeep(Jobs)
  BY <1>1, TakenOff
<1> QED
  BY <1>1, <1>2, OnlyLists

\* A job that starts is about an upload.
LEMMA StartJobStep ==
    ASSUME AccountsInv, NEW j \in Jobs, NEW item \in Nat, NEW of \in Uploads,
           Starts(j, item, of), j # Page => of = Batch[item],
           UNCHANGED <<list, saved, nextId, rotates, spent, results, deleted>>,
           next' \in Nat \ {0}
    PROVE  AccountsInv'
<1>1. ListsKeep(Jobs \ {j})
  BY ListsStay DEF AccountsInv, AccountsTypeOK
<1> DEFINE q == [NoJob EXCEPT !.at = "check", !.item = item, !.of = of]
<1>2. job' = [job EXCEPT ![j] = q]
  BY DEF Starts
<1>3. q \in JobStates /\ q.at = "check" /\ q.of = of /\ q.item = item
  BY DEF NoJob, JobStates
<1> HIDE DEF q
<1>4. "check" \notin Numbered \union Placed \union Unplaced /\ "check" # "insert"
  BY DEF Placed, Numbered, Unplaced
<1> QED
  BY <1>1, <1>2, <1>3, <1>4, JobGoesOn

\* A worker takes the next upload of the batch.
LEMMA TakeUploadStep ==
    ASSUME AccountsInv, NEW w \in Workers, TakeUpload(w)
    PROVE  AccountsInv'
<1>1. /\ next \in Nat \ {0} /\ w \in Jobs /\ w # Page
  BY BatchAssumption DEF AccountsInv, AccountsTypeOK, Jobs
<1>2. Len(Batch) \in Nat /\ DOMAIN Batch = 1..Len(Batch)
  BY BatchAssumption
<1>3. next \in DOMAIN Batch
  BY <1>1, <1>2 DEF TakeUpload
<1>4. Batch[next] \in Uploads
  BY <1>3 DEF Uploads, Range
<1> QED
  BY <1>1, <1>4, StartJobStep DEF TakeUpload, pastVars

\* The page uploads an account of its own.
LEMMA PageAddsStep ==
    ASSUME AccountsInv, NEW of \in PageUploads, PageAdds(of)
    PROVE  AccountsInv'
<1>1. Page \in Jobs /\ of \in Uploads /\ next \in Nat \ {0}
  BY DEF Jobs, Uploads, AccountsInv, AccountsTypeOK
<1> QED
  BY <1>1, StartJobStep DEF PageAdds, pastVars

\* After a restart the list is the file, and the identifiers go on after its own.
LEMMA RestartAccountsStep ==
    ASSUME AccountsInv, RestartAccounts
    PROVE  AccountsInv'
<1>1. nextId \in Nat \ {0} /\ IsList(saved)
  BY DEF AccountsInv, AccountsTypeOK
<1>2. /\ list' = saved /\ saved' = saved /\ results' = <<>>
      /\ job' = [j \in Jobs |-> NoJob] /\ next' = Len(Batch) + 1
      /\ UNCHANGED <<rotates, spent>>
      /\ nextId' = 1 + (IF saved = <<>> THEN 0
                        ELSE CHOOSE m \in DOMAIN saved : \A i \in DOMAIN saved : i <= m)
  BY DEF RestartAccounts
<1>3. nextId' \in Nat \ {0} /\ DOMAIN saved \subseteq 1..(nextId' - 1)
  <2>1. CASE saved = <<>>
    BY <1>2, <2>1
  <2>2. CASE saved # <<>>
    <3>1. DOMAIN saved # {}
      BY <1>1, <2>2 DEF IsList
    <3>2. \A i \in DOMAIN saved : i \in 1..(nextId - 1)
      BY <1>1 DEF IsList
    <3>3. nextId - 1 \in Nat
      BY <1>1
    <3>4. \E m \in DOMAIN saved : \A i \in DOMAIN saved : i <= m
      BY <3>1, <3>2, <3>3, Largest
    <3> DEFINE m == CHOOSE m \in DOMAIN saved : \A i \in DOMAIN saved : i <= m
    <3>5. m \in DOMAIN saved /\ \A i \in DOMAIN saved : i <= m
      BY <3>4
    <3>6. nextId' = 1 + m
      BY <1>2, <2>2
    <3> HIDE DEF m
    <3>7. \A i \in DOMAIN saved : i \in Nat \ {0}
      BY <3>2
    <3> QED
      BY <3>5, <3>6, <3>7
  <2> QED
    BY <2>1, <2>2
<1>4. IsList(list)' /\ IsList(saved)'
  BY <1>1, <1>2, <1>3 DEF IsList, Generation
<1>5. next' \in Nat \ {0}
  <2>1. Len(Batch) \in Nat
    BY BatchAssumption
  <2> QED
    BY <1>2, <2>1
<1>6. \A j \in Jobs : job'[j] = NoJob /\ job'[j].at = "idle"
  BY <1>2 DEF NoJob
<1>7. AccountsTypeOK'
  BY <1>2, <1>3, <1>4, <1>5, <1>6 DEF AccountsTypeOK
<1>8. JobInv'
  BY <1>6 DEF JobInv, JobOK, Placed, Numbered, Unplaced
<1>9. ResultInv'
  BY <1>2 DEF ResultInv
<1> QED
  BY <1>7, <1>8, <1>9 DEF AccountsInv

\* Every step of the accounts preserves the invariant.
LEMMA AccountsStep == AccountsInv /\ [AccountsNext]_accountVars => AccountsInv'
<1> SUFFICES ASSUME AccountsInv, [AccountsNext]_accountVars
             PROVE  AccountsInv'
  OBVIOUS
<1>1. ASSUME NEW w \in Workers, TakeUpload(w)
      PROVE  AccountsInv'
  BY <1>1, TakeUploadStep
<1>2. ASSUME NEW of \in PageUploads, PageAdds(of)
      PROVE  AccountsInv'
  BY <1>2, PageAddsStep
<1>3. ASSUME NEW j \in Jobs, Import(j)
      PROVE  AccountsInv'
  BY <1>3, CheckStep, RefreshStep, TakeNumberStep, InsertStep, PlacedStep, NotVerifiedStep DEF Import
<1>4. CASE ClientLeaves \/ UNCHANGED accountVars
  <2>1. UNCHANGED <<list, saved, nextId, rotates, spent, deleted, job, results, next>>
    BY <1>4 DEF ClientLeaves, accountVars, pastVars
  <2>2. ListsKeep(Jobs)
    BY <2>1, ListsStay DEF AccountsInv, AccountsTypeOK
  <2> QED
    BY <2>1, <2>2, OnlyLists
<1>5. CASE RestartAccounts
  BY <1>5, RestartAccountsStep
<1>6. ASSUME NEW id \in DOMAIN list, Delete(id)
      PROVE  AccountsInv'
  BY <1>6, DeleteStep
<1> QED
  BY <1>1, <1>2, <1>3, <1>4, <1>5, <1>6 DEF AccountsNext

\* The invariant holds at the start.
LEMMA AccountsStart == AccountsInit => AccountsInv
<1> SUFFICES ASSUME AccountsInit
             PROVE  AccountsInv
  OBVIOUS
<1>1. AccountsTypeOK
  <2>1. IsList(list) /\ IsList(saved)
    <3>1. DOMAIN <<>> = {} /\ <<>> = [i \in DOMAIN <<>> |-> <<>>[i]]
      OBVIOUS
    <3> QED
      BY <3>1 DEF AccountsInit, IsList
  <2> QED
    BY <2>1 DEF AccountsInit, AccountsTypeOK, NoJob
<1>2. JobInv /\ ResultInv
  BY DEF AccountsInit, JobInv, JobOK, ResultInv, NoJob, Placed, Numbered, Unplaced
<1> QED
  BY <1>1, <1>2 DEF AccountsInv

\* Whatever the order of imports, of an addition, of deletions, failed saves and
\* restarts, no two accounts are made of one upload, an account the client was
\* told of is there until it is deleted, and one that was rolled back is not.
THEOREM ImportsAlwaysKeepTheirWord == AccountsSpec => []ImportsKeepTheirWord
<1>1. AccountsInv => ImportsKeepTheirWord
  BY DEF AccountsInv, AccountsTypeOK, ResultInv, Kept, IsList, ImportsKeepTheirWord
<1> QED
  BY <1>1, AccountsStart, AccountsStep, PTL DEF AccountsSpec

\* The history of the numbers: one that is free, or that a job has taken and not yet
\* used, was never an account's, but for those a restart forgot.
NumbersInv ==
    /\ listed \in [1..MaxId -> Nat]
    /\ \A id \in 1..MaxId : listed[id] <= 1 \/ id \in forgotten
    /\ \A id \in 1..MaxId : nextId <= id => listed[id] = 0 \/ id \in forgotten
    /\ \A j \in Jobs : job[j].at = "insert" /\ job[j].id \in 1..MaxId =>
          listed[job[j].id] = 0 \/ job[j].id \in forgotten

\* A step that lists no account and takes no number keeps the history.
LEMMA NumbersStay ==
    ASSUME NumbersInv, UNCHANGED <<listed, forgotten, nextId>>,
           \A k \in Jobs : job'[k].at = "insert" => job'[k] = job[k]
    PROVE  NumbersInv'
BY DEF NumbersInv

\* What ends a job, sends it on or starts it puts none at the insertion.
LEMMA NobodyElseInserts ==
    ASSUME AccountsInv, NEW j \in Jobs,
           \/ \E result : Ends(j, result)
           \/ \E label \in {"number", "refresh", "balance", "verify"} : GoOn(j, label)
           \/ \E item, of : Starts(j, item, of)
    PROVE  \A k \in Jobs : job'[k].at = "insert" => job'[k] = job[k]
<1>1. DOMAIN job = Jobs
  BY DEF AccountsInv, AccountsTypeOK
<1>2. CASE \E result : Ends(j, result)
  BY <1>1, <1>2 DEF Ends, NoJob
<1>3. CASE \E label \in {"number", "refresh", "balance", "verify"} : GoOn(j, label)
  <2>1. PICK label \in {"number", "refresh", "balance", "verify"} : GoOn(j, label)
    BY <1>3
  <2>2. DOMAIN job' = Jobs /\ \A k \in Jobs \ {j} : job'[k] = job[k]
    BY <1>1, <2>1 DEF GoOn
  <2>3. job[j] = NoJob \/ job[j] \in JobStates
    BY DEF AccountsInv, AccountsTypeOK
  <2>4. job'[j].at = label
    BY <1>1, <2>1, <2>3 DEF GoOn, NoJob, JobStates
  <2> QED
    BY <2>1, <2>2, <2>4
<1>4. CASE \E item, of : Starts(j, item, of)
  BY <1>1, <1>4 DEF Starts, NoJob
<1> QED
  BY <1>2, <1>3, <1>4

\* An account is listed under the number its job has taken.
LEMMA ListsNumbers ==
    ASSUME AccountsInv, NumbersInv, NEW j \in Jobs, Insert(j)
    PROVE  NumbersInv'
<1>1. /\ job[j].at = "insert" /\ UNCHANGED <<nextId, forgotten>> /\ DOMAIN job = Jobs
      /\ JobOK(j) /\ job[j] \in JobStates /\ nextId \in Nat
  BY DEF Insert, Doing, AccountsInv, AccountsTypeOK, JobInv
<1>2. \A k \in Jobs : job'[k].at = "insert" => k # j /\ job'[k] = job[k]
  <2>1. CASE \E result : Ends(j, result)
    BY <1>1, <2>1 DEF Ends, NoJob
  <2>2. CASE job' = [job EXCEPT ![j].at = "region", ![j].there = TRUE]
    BY <1>1, <2>2 DEF JobStates
  <2> QED
    BY <2>1, <2>2 DEF Insert, Inserted
<1>3. CASE UNCHANGED listed
  BY <1>1, <1>2, <1>3, NumbersStay
<1>4. CASE listed' = [listed EXCEPT ![job[j].id] = @ + 1]
  <2>1. job[j].id < nextId /\ job[j].id \in Nat
    BY <1>1 DEF JobOK, Numbered, JobStates
  <2>2. \A k \in Jobs \ {j} : job[k].at = "insert" => job[k].id # job[j].id
    BY <1>1 DEF JobOK, Numbered
  <2>3. listed' \in [1..MaxId -> Nat]
    <3>1. \A id \in 1..MaxId : listed[id] \in Nat /\ listed[id] + 1 \in Nat
      BY DEF NumbersInv
    <3>2. \A id \in 1..MaxId : listed'[id] = IF id = job[j].id THEN listed[id] + 1 ELSE listed[id]
      BY <1>4 DEF NumbersInv
    <3>3. listed' = [id \in 1..MaxId |-> listed'[id]]
      BY <1>4 DEF NumbersInv
    <3> QED
      BY <3>1, <3>2, <3>3
  <2>4. \A id \in 1..MaxId : id # job[j].id => listed'[id] = listed[id]
    BY <1>4 DEF NumbersInv
  <2>5. job[j].id \in 1..MaxId => listed'[job[j].id] <= 1 \/ job[j].id \in forgotten
    BY <1>1, <1>4 DEF NumbersInv
  <2>6. \A id \in 1..MaxId : listed'[id] <= 1 \/ id \in forgotten
    BY <2>4, <2>5 DEF NumbersInv
  <2>7. \A id \in 1..MaxId : nextId <= id => listed'[id] = 0 \/ id \in forgotten
    BY <1>1, <2>1, <2>4 DEF NumbersInv
  <2>8. \A k \in Jobs : job'[k].at = "insert" /\ job'[k].id \in 1..MaxId =>
            listed'[job'[k].id] = 0 \/ job'[k].id \in forgotten
    BY <1>2, <2>2, <2>4 DEF NumbersInv
  <2> QED
    BY <1>1, <2>3, <2>6, <2>7, <2>8 DEF NumbersInv
<1> QED
  BY <1>3, <1>4 DEF Insert, Lists

\* A number that is taken was not given out before.
LEMMA TakesNumbers ==
    ASSUME AccountsInv, NumbersInv, NEW j \in Jobs, TakeNumber(j)
    PROVE  NumbersInv'
<1>1. /\ nextId' = nextId + 1 /\ UNCHANGED <<listed, forgotten>> /\ DOMAIN job = Jobs
      /\ job' = [job EXCEPT ![j].at = "insert", ![j].id = nextId]
      /\ job[j] \in JobStates /\ nextId \in Nat
  BY DEF TakeNumber, Doing, AccountsInv, AccountsTypeOK, pastVars
<1>2. /\ job'[j].id = nextId
      /\ \A k \in Jobs \ {j} : job'[k] = job[k]
  BY <1>1 DEF JobStates
<1>3. \A k \in Jobs : job'[k].at = "insert" /\ job'[k].id \in 1..MaxId =>
            listed[job'[k].id] = 0 \/ job'[k].id \in forgotten
  BY <1>1, <1>2 DEF NumbersInv
<1>4. \A id \in 1..MaxId : nextId + 1 <= id => nextId <= id
  BY <1>1
<1> QED
  BY <1>1, <1>3, <1>4 DEF NumbersInv

\* A restart forgets the numbers it puts the counter back before.
LEMMA ForgetsNumbers ==
    ASSUME AccountsInv, AccountsInv', NumbersInv, RestartAccounts
    PROVE  NumbersInv'
<1>1. /\ listed' = listed /\ forgotten' = forgotten \union nextId'..(nextId - 1)
      /\ \A k \in Jobs : job'[k].at # "insert"
  BY DEF RestartAccounts, NoJob
<1>2. nextId \in Nat /\ nextId' \in Nat
  BY DEF AccountsInv, AccountsTypeOK
<1>3. \A id \in 1..MaxId : nextId' <= id => id \in forgotten' \/ nextId <= id
  BY <1>1, <1>2
<1> QED
  BY <1>1, <1>3 DEF NumbersInv

LEMMA NumbersStep ==
    AccountsInv /\ AccountsInv' /\ NumbersInv /\ [AccountsNext]_accountVars => NumbersInv'
<1> SUFFICES ASSUME AccountsInv, AccountsInv', NumbersInv, [AccountsNext]_accountVars
             PROVE  NumbersInv'
  OBVIOUS
<1>1. ASSUME NEW w \in Workers, TakeUpload(w)
      PROVE  NumbersInv'
  <2>1. w \in Jobs /\ UNCHANGED <<listed, forgotten, nextId>>
    BY <1>1 DEF TakeUpload, Jobs, pastVars
  <2> QED
    BY <1>1, <2>1, NobodyElseInserts, NumbersStay DEF TakeUpload
<1>2. ASSUME NEW of \in PageUploads, PageAdds(of)
      PROVE  NumbersInv'
  <2>1. Page \in Jobs /\ UNCHANGED <<listed, forgotten, nextId>>
    BY <1>2 DEF PageAdds, Jobs, pastVars
  <2> QED
    BY <1>2, <2>1, NobodyElseInserts, NumbersStay DEF PageAdds
<1>3. ASSUME NEW j \in Jobs,
             \/ Check(j) \/ Refresh(j) \/ Region(j) \/ Balance(j)
             \/ Verified(j) \/ NotVerified(j)
      PROVE  NumbersInv'
  <2>1. UNCHANGED <<listed, forgotten, nextId>>
    BY <1>3 DEF Check, Refresh, Region, Balance, Verified, NotVerified, pastVars
  <2>2. \/ \E result : Ends(j, result)
        \/ \E label \in {"number", "refresh", "balance", "verify"} : GoOn(j, label)
    BY <1>3 DEF Check, Refresh, Region, Balance, Verified, NotVerified
  <2> QED
    BY <2>1, <2>2, NobodyElseInserts, NumbersStay
<1>4. ASSUME NEW j \in Jobs, TakeNumber(j) \/ Insert(j)
      PROVE  NumbersInv'
  BY <1>4, TakesNumbers, ListsNumbers
<1>5. CASE ClientLeaves \/ UNCHANGED accountVars
  BY <1>5, NumbersStay DEF ClientLeaves, accountVars, pastVars
<1>6. CASE RestartAccounts
  BY <1>6, ForgetsNumbers
<1>7. ASSUME NEW id \in DOMAIN list, Delete(id)
      PROVE  NumbersInv'
  BY <1>7, NumbersStay DEF Delete
<1> QED
  BY <1>1, <1>2, <1>3, <1>4, <1>5, <1>6, <1>7 DEF AccountsNext, Import

\* However imports, an addition, rollbacks, deletions, failed saves and restarts
\* interleave, no two accounts are listed under one identifier, at once or one after
\* the other, but for the identifiers a restart has forgotten.
THEOREM IdsAreNeverReused == AccountsSpec => []IdsAreNotReused
<1>1. AccountsInit => NumbersInv
  BY DEF AccountsInit, NumbersInv, NoJob
<1>2. NumbersInv => IdsAreNotReused
  BY DEF NumbersInv, IdsAreNotReused
<1> QED
  BY <1>1, <1>2, AccountsStart, AccountsStep, NumbersStep, PTL DEF AccountsSpec

-----------------------------------------------------------------------------
(* Login flows.                                                              *)

LoginStates ==
    [kind : {"local", "remote", "idc"}, at : {"unused", "open", "ended"},
     target : Targets \union {NewAccount}, channel : Logins \union {"empty", "closed"},
     server : {"off", "listens", "reads"}, held : BOOLEAN, due : BOOLEAN, grant : {"waiting", "approved", "used"}]

\* The places of a request that has a session: of a social one, of an IdC one,
\* and those after a token was granted.
SocialPlaces == {"drop", "received", "pasted", "take", "exchange"}
Relogin == {"disable", "update", "enable"}

PollStates ==
    [at : {"ask", "add", "done"} \union SocialPlaces \union Relogin, s : Logins,
     state : Logins \union {"empty", "closed", "none"}, refresh : BOOLEAN, alone : BOOLEAN]

LoginTypeOK ==
    /\ login \in [Logins -> LoginStates]
    /\ account \in [Targets -> [present : BOOLEAN, enabled : BOOLEAN,
                                token : Logins \union {Old}]]
    /\ exchanged \in [Logins -> Nat] /\ added \in [Logins -> Nat]
    /\ DOMAIN poller = Pollers
    /\ \A c \in Pollers :
          \/ poller[c] = NoPoll
          \/ /\ poller[c] \in PollStates
             /\ login[poller[c].s].at # "unused"

\* A session whose code can still be exchanged, or whose grant can still be
\* used, was not exchanged; the request that is at its exchange, or adds its
\* account, is the only one that is.
CodeInv ==
    /\ \A s \in Logins :
          /\ exchanged[s] <= 1 /\ added[s] <= exchanged[s]
          /\ (IF Social(s) THEN login[s].at # "ended"
              ELSE login[s].grant # "used" \/ login[s].at = "unused") => exchanged[s] = 0
    /\ \A c \in Pollers :
          LET s == poller[c].s IN
          /\ poller[c].at \in SocialPlaces => Social(s)
          /\ PollAt(c, "ask") => ~Social(s)
          /\ PollAt(c, "exchange") => login[s].at = "ended" /\ exchanged[s] = 0
          /\ PollAt(c, "add") => exchanged[s] = 1 /\ added[s] = 0
    /\ \A c, d \in Pollers :
          poller[c].at \in {"exchange", "add"} /\ poller[d].at = poller[c].at
          /\ poller[d].s = poller[c].s => c = d

\* How far an undisturbed relogin has come with its account.
ReloginInv ==
    \A c \in Pollers :
        LET x == Aim(c)
            p == poller[c]
        IN  /\ p.at \in Relogin => x \in Targets
            /\ p.alone /\ p.at = "update" => account[x].present /\ ~account[x].enabled
            /\ p.alone /\ p.at = "enable" =>
                  /\ account[x].present /\ ~account[x].enabled
                  /\ account[x].token = p.s
            /\ p.alone /\ p.at = "done" /\ p.refresh /\ x \in Targets =>
                  account[x] = [present |-> TRUE, enabled |-> TRUE, token |-> p.s]

LoginInv == LoginTypeOK /\ CodeInv /\ ReloginInv

\* A request that is not idle has a session that was begun.
LEMMA Busy ==
    ASSUME LoginTypeOK, NEW c \in Pollers, poller[c].at # "idle"
    PROVE  /\ poller[c].s \in Logins /\ login[poller[c].s] \in LoginStates
           /\ login[poller[c].s].at # "unused" /\ Aim(c) \in Targets \union {NewAccount}
           /\ poller[c] \in PollStates
  BY DEF LoginTypeOK, NoPoll, LoginStates, PollStates, Aim

\* The invariant holds at the start.
LEMMA LoginInvInit == LoginInit => LoginInv
<1> SUFFICES ASSUME LoginInit PROVE LoginInv
  OBVIOUS
<1>1. LoginTypeOK
  BY DEF LoginInit, LoginTypeOK, NoLogin, LoginStates
<1>2. CodeInv /\ ReloginInv
  BY DEF LoginInit, CodeInv, ReloginInv, NoLogin, NoPoll, SocialPlaces, Relogin, PollAt, Social
<1> QED
  BY <1>1, <1>2 DEF LoginInv

\* Sessions may begin, end, hear from their browser and be approved: what is
\* known of the requests and of the codes is not touched by that.
SessionStep ==
    /\ login' \in [Logins -> LoginStates]
    /\ \A s \in Logins :
          \/ login[s].at = "unused"
          \/ /\ login'[s].kind = login[s].kind /\ login'[s].target = login[s].target
             /\ login'[s].at \in {login[s].at, "ended"}
             /\ login[s].grant = "used" => login'[s].grant = "used"

\* A step of a session that keeps within SessionStep disturbs no request.
LEMMA SessionsMove ==
    ASSUME LoginInv, SessionStep, UNCHANGED <<poller, account, exchanged, added>>
    PROVE  LoginInv'
<1> USE DEF LoginInv
<1>1. LoginTypeOK'
  <2>1. \A c \in Pollers : poller[c] \in PollStates => poller[c].s \in Logins
    BY DEF PollStates
  <2> QED
    BY <2>1 DEF LoginTypeOK, SessionStep
<1>2. CodeInv'
  BY Busy DEF CodeInv, LoginTypeOK, SessionStep, Social, PollAt, SocialPlaces
<1>3. ReloginInv'
  BY Busy DEF ReloginInv, LoginTypeOK, SessionStep, Aim, Relogin
<1> QED
  BY <1>1, <1>2, <1>3

\* A session that has ended keeps what it was.
LEMMA EndedType ==
    ASSUME NEW l \in LoginStates
    PROVE  /\ Ended(l) \in LoginStates /\ Ended(l).at = "ended" /\ Ended(l).kind = l.kind
           /\ Ended(l).target = l.target /\ Ended(l).grant = l.grant
  BY DEF Ended, LoginStates

\* The steps of sessions, of browsers and of the cleanup are such steps.
LEMMA SessionActions ==
    ASSUME LoginTypeOK,
           \/ \E o \in Offers : StartSocial(o[1], o[2], o[3]) \/ StartIdc(o[1], o[2], o[3])
           \/ \E s \in Logins :
                 CallbackServer(s) \/ Deliver(s) \/ Approve(s) \/ Expire(s)
           \/ Sweep
    PROVE  SessionStep /\ UNCHANGED <<poller, account, exchanged, added>>
<1> USE DEF LoginTypeOK, SessionStep, SameHistory
<1>1. ASSUME NEW s \in Logins, NEW l \in LoginStates, login' = [login EXCEPT ![s] = l],
             \/ login[s].at = "unused"
             \/ /\ l.kind = login[s].kind /\ l.target = login[s].target
                /\ l.at \in {login[s].at, "ended"}
                /\ login[s].grant = "used" => l.grant = "used"
      PROVE  SessionStep
  BY <1>1 DEF LoginStates
<1>2. ASSUME NEW o \in Offers, StartSocial(o[1], o[2], o[3]) \/ StartIdc(o[1], o[2], o[3])
      PROVE  SessionStep /\ UNCHANGED <<poller, account, exchanged, added>>
  <2> DEFINE l == [NoLogin EXCEPT !.kind = o[2], !.at = "open", !.target = o[3],
                                  !.held = (o[2] = "local"),
                                  !.server = IF o[2] = "local" THEN "listens" ELSE "off"]
  <2>1. o[1] \in Logins /\ o[2] \in {"local", "remote", "idc"}
        /\ o[3] \in Targets \union {NewAccount}
    BY OffersAssumption
  <2>2. l \in LoginStates
    BY <2>1 DEF NoLogin, LoginStates
  <2>3. Begins(o[1], o[2], o[3])
    BY <1>2 DEF StartSocial, StartIdc
  <2> QED
    BY <2>1, <2>2, <2>3, <1>1 DEF Begins
<1>3. ASSUME NEW s \in Logins, CallbackServer(s)
      PROVE  SessionStep /\ UNCHANGED <<poller, account, exchanged, added>>
  <2> DEFINE l(to, ch) == [login[s] EXCEPT !.server = to, !.channel = ch]
             Servers == {"off", "listens", "reads"}
             Channels == Logins \union {"empty", "closed"}
  <2>1. login[s] \in LoginStates /\ login[s].channel \in Channels
    BY DEF LoginStates
  <2>2. PICK to \in Servers, ch \in Channels :
           login' = [login EXCEPT ![s] = l(to, ch)] /\ UNCHANGED <<poller, account, exchanged, added>>
    <3>1. PICK at \in Servers, to \in Servers, ch \in Channels : ServerStep(s, at, to, ch)
      BY <1>3, <2>1 DEF CallbackServer, Accept, OtherRequest, ShutDown, Callback
    <3> QED
      BY <3>1 DEF ServerStep
  <2>3. /\ l(to, ch) \in LoginStates
        /\ l(to, ch).kind = login[s].kind /\ l(to, ch).target = login[s].target
        /\ l(to, ch).at = login[s].at /\ l(to, ch).grant = login[s].grant
    BY <2>1 DEF LoginStates
  <2> QED
    BY <2>2, <2>3, <1>1
<1>4. ASSUME NEW s \in Logins, Deliver(s) \/ Approve(s) \/ Expire(s)
      PROVE  SessionStep /\ UNCHANGED <<poller, account, exchanged, added>>
  <2>1. login[s] \in LoginStates
    OBVIOUS
  <2>2. CASE Deliver(s)
    <3>1. [login[s] EXCEPT !.channel = s] \in LoginStates
      BY <2>1 DEF LoginStates
    <3> QED
      BY <2>1, <2>2, <3>1, <1>1 DEF Deliver, LoginStates
  <2>3. CASE Approve(s)
    <3>1. [login[s] EXCEPT !.grant = "approved"] \in LoginStates
      BY <2>1 DEF LoginStates
    <3> QED
      BY <2>1, <2>3, <3>1, <1>1 DEF Approve, LoginStates
  <2>4. CASE Expire(s)
    <3>1. [login[s] EXCEPT !.due = TRUE] \in LoginStates
      BY <2>1 DEF LoginStates
    <3> QED
      BY <2>1, <2>4, <3>1, <1>1 DEF Expire, LoginStates
  <2> QED
    BY <1>4, <2>2, <2>3, <2>4
<1>5. ASSUME Sweep
      PROVE  SessionStep /\ UNCHANGED <<poller, account, exchanged, added>>
  <2>1. \A s \in Logins : /\ Ended(login[s]) \in LoginStates
                          /\ Ended(login[s]).kind = login[s].kind
                          /\ Ended(login[s]).target = login[s].target
                          /\ Ended(login[s]).grant = login[s].grant
                          /\ Ended(login[s]).at = "ended"
    BY EndedType
  <2> QED
    BY <1>5, <2>1 DEF Sweep
<1> QED
  BY <1>2, <1>3, <1>4, <1>5

\* A request that asks, or goes on with, a session that was begun; it comes to
\* the exchange only with a session that ends just now.
LEMMA RequestMoves ==
    ASSUME LoginInv, SessionStep, UNCHANGED <<account, exchanged, added>>,
           NEW c \in Pollers, NEW p, poller' = [poller EXCEPT ![c] = p],
           \/ p = NoPoll
           \/ /\ p \in PollStates /\ login[p.s].at # "unused"
              /\ \/ p.at \in SocialPlaces \ {"exchange"} /\ Social(p.s)
                 \/ p.at = "ask" /\ ~Social(p.s)
                 \/ /\ p.at = "exchange" /\ Social(p.s)
                    /\ login[p.s].at = "open" /\ login'[p.s].at = "ended"
    PROVE  LoginInv'
<1> USE DEF LoginInv
<1>1. LoginTypeOK'
  <2>1. ASSUME NEW d \in Pollers
        PROVE  (\/ poller[d] = NoPoll
                \/ poller[d] \in PollStates /\ login[poller[d].s].at # "unused")'
    <3>1. CASE d # c
      <4>1. poller'[d] = poller[d]
        BY <3>1 DEF LoginTypeOK
      <4>2. poller[d] \in PollStates => poller[d].s \in Logins
        BY DEF PollStates
      <4> QED
        BY <4>1, <4>2 DEF LoginTypeOK, SessionStep
    <3>2. CASE d = c
      <4>1. poller'[d] = p
        BY <3>2 DEF LoginTypeOK
      <4>2. p \in PollStates => p.s \in Logins
        BY DEF PollStates
      <4> QED
        BY <4>1, <4>2 DEF SessionStep
    <3> QED
      BY <3>1, <3>2
  <2> QED
    BY <2>1 DEF LoginTypeOK, SessionStep
<1>2. CodeInv'
  <2>1. ASSUME NEW s \in Logins
        PROVE  ((IF Social(s) THEN login[s].at # "ended"
                 ELSE login[s].grant # "used" \/ login[s].at = "unused") => exchanged[s] = 0)'
    BY DEF CodeInv, LoginTypeOK, SessionStep, Social
  <2>2. ASSUME NEW d \in Pollers
        PROVE  (LET s == poller[d].s IN
                /\ poller[d].at \in SocialPlaces => Social(s)
                /\ PollAt(d, "ask") => ~Social(s)
                /\ PollAt(d, "exchange") => login[s].at = "ended" /\ exchanged[s] = 0
                /\ PollAt(d, "add") => exchanged[s] = 1 /\ added[s] = 0)'
    <3>1. CASE d # c
      BY <3>1, Busy DEF CodeInv, LoginTypeOK, SessionStep, Social, PollAt, SocialPlaces
    <3>2. CASE d = c
      BY <3>2
         DEF CodeInv, LoginTypeOK, SessionStep, Social, PollAt, SocialPlaces, PollStates, NoPoll
    <3> QED
      BY <3>1, <3>2
  <2>3. ASSUME NEW d \in Pollers, NEW e \in Pollers,
               poller'[d].at \in {"exchange", "add"}, poller'[e].at = poller'[d].at,
               poller'[e].s = poller'[d].s
        PROVE  d = e
    BY <2>3, Busy DEF CodeInv, LoginTypeOK, PollAt, SocialPlaces, NoPoll
  <2>4. \A s \in Logins : (exchanged[s] <= 1 /\ added[s] <= exchanged[s])'
    BY DEF CodeInv
  <2> QED
    BY <2>1, <2>2, <2>3, <2>4 DEF CodeInv
<1>3. ReloginInv'
  <2>1. ASSUME NEW d \in Pollers
        PROVE  (LET x == Aim(d)
                    q == poller[d]
                IN  /\ q.at \in Relogin => x \in Targets
                    /\ q.alone /\ q.at = "update" => account[x].present /\ ~account[x].enabled
                    /\ q.alone /\ q.at = "enable" =>
                          /\ account[x].present /\ ~account[x].enabled
                          /\ account[x].token = q.s
                    /\ q.alone /\ q.at = "done" /\ q.refresh /\ x \in Targets =>
                          account[x] = [present |-> TRUE, enabled |-> TRUE, token |-> q.s])'
    <3>1. CASE d # c
      <4>1. poller'[d] = poller[d]
        BY <3>1 DEF LoginTypeOK
      <4>2. CASE poller[d].at = "idle"
        BY <4>1, <4>2 DEF Relogin
      <4>3. CASE poller[d].at # "idle"
        <5>1. login'[poller[d].s].target = login[poller[d].s].target
          BY <4>3, Busy DEF SessionStep
        <5> QED
          BY <4>1, <5>1 DEF ReloginInv, Aim
      <4> QED
        BY <4>2, <4>3
    <3>2. CASE d = c
      <4>1. poller'[d] = p
        BY <3>2 DEF LoginTypeOK
      <4>2. p.at \notin Relogin \union {"done"}
        BY DEF NoPoll, SocialPlaces, Relogin
      <4> QED
        BY <4>1, <4>2 DEF Relogin
    <3> QED
      BY <3>1, <3>2
  <2> QED
    BY <2>1 DEF ReloginInv
<1> QED
  BY <1>1, <1>2, <1>3

\* A request that is over is again what it was at first.
LEMMA BlankPoll ==
    \E any : NoPoll = [at |-> "idle", s |-> any, state |-> "none", refresh |-> FALSE,
                       alone |-> FALSE]
  BY DEF NoPoll

\* What a request does before it has a token.
LEMMA RequestActions ==
    ASSUME LoginInv, NEW c \in Pollers,
           \/ \E s \in Logins : \/ PollSocial(c, s) \/ PollIdc(c, s)
                                \/ \E t \in Logins : Complete(c, s, t)
           \/ Drop(c) \/ Verify(c) \/ Take(c)
    PROVE  LoginInv'
<1> USE DEF LoginInv, SameHistory
<1> DEFINE p == poller[c]
<1>1. login \in [Logins -> LoginStates] /\ DOMAIN poller = Pollers
  BY DEF LoginTypeOK
<1>2. UNCHANGED login => SessionStep
  BY <1>1 DEF SessionStep
<1>4. ASSUME NEW s \in Logins, NEW at \in {"drop", "received", "pasted", "ask"},
             NEW state \in Logins \union {"empty", "closed", "none"}, Asks(c, s, at, state),
             Open(s), SessionStep, UNCHANGED <<account, exchanged, added>>,
             IF at = "ask" THEN ~Social(s) ELSE Social(s)
      PROVE  LoginInv'
  <2> DEFINE q == [NoPoll EXCEPT !.at = at, !.s = s, !.state = state]
  <2>1. poller' = [poller EXCEPT ![c] = q]
    BY <1>4 DEF Asks
  <2>2. q \in PollStates /\ q.s = s /\ q.at = at
    <3>1. PICK any : NoPoll = [at |-> "idle", s |-> any, state |-> "none",
                               refresh |-> FALSE, alone |-> FALSE]
      BY BlankPoll
    <3>2. at \in {"ask", "add", "done"} \union SocialPlaces \union Relogin
      BY DEF SocialPlaces
    <3> QED
      BY <3>1, <3>2 DEF PollStates
  <2> HIDE DEF q
  <2>3. q.at = "ask" \/ q.at \in SocialPlaces \ {"exchange"}
    BY <2>2 DEF SocialPlaces
  <2>4. q.at = "ask" <=> at = "ask"
    BY <2>2
  <2> QED
    BY <1>4, <2>1, <2>2, <2>3, <2>4, RequestMoves DEF Open
<1>5. ASSUME NEW s \in Logins, PollSocial(c, s) PROVE LoginInv'
  <2>1. login[s] \in LoginStates
    BY <1>1
  <2>2. CASE UNCHANGED login
    BY <1>2, <1>4, <1>5, <2>1, <2>2 DEF PollSocial, LoginStates
  <2>3. CASE login' = [login EXCEPT ![s].channel = "closed"]
    <3>1. [login[s] EXCEPT !.channel = "closed"] \in LoginStates
      BY <2>1 DEF LoginStates
    <3>2. SessionStep
      BY <1>1, <2>1, <2>3, <3>1 DEF SessionStep, LoginStates
    <3>3. login[s].channel \in Logins \union {"empty", "closed"}
      BY <2>1 DEF LoginStates
    <3> QED
      BY <3>2, <3>3, <1>4, <1>5, <2>3 DEF PollSocial
  <2> QED
    BY <1>5, <2>2, <2>3 DEF PollSocial
<1>6. ASSUME NEW s \in Logins, NEW t \in Logins, Complete(c, s, t) PROVE LoginInv'
  BY <1>2, <1>4, <1>6 DEF Complete
<1>7. ASSUME NEW s \in Logins, PollIdc(c, s) PROVE LoginInv'
  BY <1>2, <1>4, <1>7 DEF PollIdc
<1>8. CASE Drop(c)
  <2>1. p.s \in Logins /\ login[p.s] \in LoginStates
    BY <1>8, Busy DEF Drop, PollAt
  <2>2. SessionStep
    BY <1>1, <1>8, <2>1, EndedType DEF Drop, SessionStep
  <2> QED
    BY <1>8, <2>2, RequestMoves DEF Drop, Finish
<1>9. CASE Verify(c) \/ Take(c)
  <2>1. /\ p.s \in Logins /\ login[p.s] \in LoginStates /\ login[p.s].at # "unused"
        /\ p \in PollStates
    BY <1>9, Busy DEF Verify, Take, PollAt
  <2>2. Social(p.s)
    BY <1>9 DEF Verify, Take, PollAt, CodeInv, SocialPlaces
  <2>3. ASSUME Finish(c), UNCHANGED login PROVE LoginInv'
    BY <1>2, <1>9, <2>3, RequestMoves DEF Finish, Verify, Take
  <2>4. ASSUME Verify(c), PollGoto(c, "take") PROVE LoginInv'
    <3>1. [p EXCEPT !.at = "take"] \in PollStates /\ [p EXCEPT !.at = "take"].s = p.s
          /\ [p EXCEPT !.at = "take"].at = "take"
      BY <2>1 DEF PollStates, SocialPlaces
    <3>2. poller' = [poller EXCEPT ![c] = [p EXCEPT !.at = "take"]]
      BY <2>4 DEF PollGoto
    <3> QED
      BY <1>2, <2>1, <2>2, <2>4, <3>1, <3>2, RequestMoves DEF Verify, SocialPlaces
  <2>5. ASSUME Take(c), Open(p.s), PollGoto(c, "exchange") PROVE LoginInv'
    <3> DEFINE q == [p EXCEPT !.at = "exchange"]
               l == [login[p.s] EXCEPT !.at = "ended", !.channel = "closed"]
    <3>1. q \in PollStates /\ q.s = p.s /\ q.at = "exchange"
      BY <2>1 DEF PollStates, SocialPlaces
    <3>2. poller' = [poller EXCEPT ![c] = q]
      BY <2>5 DEF PollGoto
    <3>3. l \in LoginStates /\ l.at = "ended" /\ l.kind = login[p.s].kind
          /\ l.target = login[p.s].target /\ l.grant = login[p.s].grant
      BY <2>1 DEF LoginStates
    <3>4. login' = [login EXCEPT ![p.s] = l]
      BY <2>5 DEF Take
    <3>5. SessionStep
      BY <1>1, <2>1, <3>3, <3>4 DEF SessionStep
    <3>6. login[p.s].at = "open" /\ login'[p.s].at = "ended"
      BY <1>1, <2>1, <2>5, <3>3, <3>4 DEF Open
    <3> HIDE DEF q, l
    <3> QED
      BY <2>1, <2>2, <2>5, <3>1, <3>2, <3>5, <3>6, RequestMoves DEF Take
  <2> QED
    BY <1>9, <2>3, <2>4, <2>5 DEF Verify, Take
<1> QED
  BY <1>5, <1>6, <1>7, <1>8, <1>9

\* A token is granted to the one request that may still get it.
LEMMA TokenGranted ==
    ASSUME LoginInv, SessionStep, NEW c \in Pollers, NEW s \in Logins, poller[c].s = s,
           PollAt(c, "exchange") \/ (PollAt(c, "ask") /\ exchanged[s] = 0),
           Social(s) => login'[s].at = "ended",
           ~Social(s) => login'[s].at = "ended" /\ login'[s].grant = "used",
           exchanged' = [exchanged EXCEPT ![s] = @ + 1], UNCHANGED <<account, added>>,
           NEW q, poller' = [poller EXCEPT ![c] = q],
           \/ q = NoPoll
           \/ /\ q \in PollStates /\ q.s = s
              /\ \/ q.at = "add"
                 \/ q.at = "disable" /\ login[s].target \in Targets
                 \/ q.at = "done" /\ ~q.refresh
                 \/ q.at = "done" /\ login[s].target \notin Targets
    PROVE  LoginInv'
<1> USE DEF LoginInv
<1>1. poller[c].at \in {"exchange", "ask"} /\ exchanged[s] = 0 /\ login[s].at # "unused"
  BY Busy DEF PollAt, CodeInv
<1>2. \A d \in Pollers \ {c} : poller[d].s = s => poller[d].at \notin {"exchange", "add"}
  <2> SUFFICES ASSUME NEW d \in Pollers \ {c}, poller[d].s = s,
                      poller[d].at \in {"exchange", "add"}
               PROVE  FALSE
    OBVIOUS
  <2>1. poller[d].at = "exchange"
    BY <1>1 DEF CodeInv, PollAt
  <2>2. Social(s)
    BY <2>1 DEF CodeInv, SocialPlaces
  <2>3. poller[c].at = "exchange"
    BY <1>1, <2>2 DEF CodeInv, PollAt
  <2> QED
    BY <2>1, <2>3 DEF CodeInv
<1>3. exchanged'[s] = 1 /\ \A t \in Logins \ {s} : exchanged'[t] = exchanged[t]
  BY <1>1 DEF LoginTypeOK
<1>4. \A d \in Pollers \ {c} : poller'[d] = poller[d]
  OBVIOUS
<1>5. poller'[c] = q
  BY DEF LoginTypeOK
<1>6. LoginTypeOK'
  <2>1. ASSUME NEW d \in Pollers
        PROVE  (\/ poller[d] = NoPoll
                \/ poller[d] \in PollStates /\ login[poller[d].s].at # "unused")'
    <3>1. CASE d # c
      <4>1. poller[d] \in PollStates => poller[d].s \in Logins
        BY DEF PollStates
      <4> QED
        BY <1>4, <3>1, <4>1 DEF LoginTypeOK, SessionStep
    <3>2. CASE d = c
      BY <1>1, <1>5, <3>2 DEF SessionStep
    <3> QED
      BY <3>1, <3>2
  <2> QED
    BY <2>1 DEF LoginTypeOK, SessionStep
<1>7. CodeInv'
  <2>1. ASSUME NEW t \in Logins
        PROVE  (/\ exchanged[t] <= 1 /\ added[t] <= exchanged[t]
                /\ (IF Social(t) THEN login[t].at # "ended"
                    ELSE login[t].grant # "used" \/ login[t].at = "unused")
                       => exchanged[t] = 0)'
    <3>1. CASE t = s
      BY <1>1, <1>3, <3>1 DEF CodeInv, LoginTypeOK, SessionStep, Social
    <3>2. CASE t # s
      BY <1>3, <3>2 DEF CodeInv, LoginTypeOK, SessionStep, Social
    <3> QED
      BY <3>1, <3>2
  <2>2. ASSUME NEW d \in Pollers
        PROVE  (LET t == poller[d].s IN
                /\ poller[d].at \in SocialPlaces => Social(t)
                /\ PollAt(d, "ask") => ~Social(t)
                /\ PollAt(d, "exchange") => login[t].at = "ended" /\ exchanged[t] = 0
                /\ PollAt(d, "add") => exchanged[t] = 1 /\ added[t] = 0)'
    <3>1. CASE d # c
      BY <1>2, <1>3, <1>4, <3>1, Busy
      DEF CodeInv, LoginTypeOK, SessionStep, Social, PollAt, SocialPlaces
    <3>2. CASE d = c
      <4>1. q.at = "add" => added[s] = 0
        BY <1>1 DEF CodeInv, LoginTypeOK
      <4> QED
        BY <1>3, <1>5, <3>2, <4>1 DEF PollAt, SocialPlaces, NoPoll
    <3> QED
      BY <3>1, <3>2
  <2>3. ASSUME NEW d \in Pollers, NEW e \in Pollers,
               poller'[d].at \in {"exchange", "add"}, poller'[e].at = poller'[d].at,
               poller'[e].s = poller'[d].s
        PROVE  d = e
    BY <1>2, <1>4, <1>5, <2>3 DEF CodeInv, NoPoll
  <2> QED
    BY <2>1, <2>2, <2>3 DEF CodeInv
<1>8. ReloginInv'
  <2>1. ASSUME NEW d \in Pollers \ {c}, poller[d].at # "idle"
        PROVE  Aim(d)' = Aim(d)
    BY <1>4, <2>1, Busy DEF Aim, SessionStep
  <2>2. q # NoPoll => Aim(c)' = login[s].target
    BY <1>1, <1>5 DEF Aim, SessionStep
  <2> QED
    BY <1>4, <1>5, <2>1, <2>2 DEF ReloginInv, Relogin, NoPoll
<1> QED
  BY <1>6, <1>7, <1>8

\* What a request does with the token: it adds an account or signs one in again.
LEMMA TokenActions ==
    ASSUME LoginInv, NEW c \in Pollers, Exchange(c) \/ AskService(c) \/ AddAccount(c)
    PROVE  LoginInv'
<1> USE DEF LoginInv, SameHistory
<1> DEFINE p == poller[c]
           s == poller[c].s
<1>1. p \in PollStates /\ s \in Logins /\ login[s] \in LoginStates /\ login[s].at # "unused"
  BY Busy DEF Exchange, AskService, AddAccount, PollAt
<1>2. login \in [Logins -> LoginStates] /\ DOMAIN poller = Pollers
  BY DEF LoginTypeOK
<1>3. ASSUME NEW again \in BOOLEAN, AfterToken(c, again)
      PROVE  \E q : /\ poller' = [poller EXCEPT ![c] = q] /\ q \in PollStates /\ q.s = s
                    /\ \/ q.at = "add"
                       \/ q.at = "disable" /\ login[s].target \in Targets
                       \/ q.at = "done" /\ ~q.refresh
                       \/ q.at = "done" /\ login[s].target \notin Targets
  <2> DEFINE at == IF Aim(c) = NewAccount THEN "add" ELSE IF again THEN "disable" ELSE "done"
             q  == [[p EXCEPT !.at = at] EXCEPT !.refresh = again, !.alone = TRUE]
  <2>1. Aim(c) = login[s].target /\ Aim(c) \in Targets \union {NewAccount}
    BY <1>1 DEF Aim, LoginStates
  <2>2. poller' = [poller EXCEPT ![c] = q]
    BY <1>2, <1>3 DEF AfterToken
  <2>3. at \in {"add", "disable", "done"} /\ (at = "disable" => Aim(c) \in Targets)
        /\ (at = "done" => ~again)
    BY <2>1
  <2> HIDE DEF at
  <2>4. q \in PollStates /\ q.s = s /\ q.at = at /\ q.refresh = again
    BY <1>1, <2>3 DEF PollStates, Relogin
  <2> QED
    BY <2>1, <2>2, <2>3, <2>4
<1>4. CASE Exchange(c)
  <2>1. SessionStep /\ login'[s].at = "ended" /\ Social(s)
    <3> DEFINE l == [login[s] EXCEPT !.held = FALSE]
    <3>1. l \in LoginStates /\ l.at = login[s].at /\ l.kind = login[s].kind
          /\ l.target = login[s].target /\ l.grant = login[s].grant
      BY <1>1 DEF LoginStates
    <3>2. login' = [login EXCEPT ![s] = l]
      BY <1>4 DEF Exchange
    <3> HIDE DEF l
    <3>3. Social(s) /\ login[s].at = "ended"
      BY <1>4 DEF Exchange, CodeInv, PollAt, SocialPlaces
    <3> QED
      BY <1>1, <1>2, <3>1, <3>2, <3>3 DEF SessionStep
  <2>2. exchanged' = [exchanged EXCEPT ![s] = @ + 1]
    BY <1>4 DEF Exchange, AfterToken
  <2>3. CASE Finish(c)
    <3>1. poller' = [poller EXCEPT ![c] = NoPoll] /\ PollAt(c, "exchange")
          /\ UNCHANGED <<account, added>>
      BY <1>4, <2>3 DEF Finish, Exchange
    <3> QED
      BY <1>1, <2>1, <2>2, <3>1, TokenGranted
  <2>4. ASSUME NEW again \in BOOLEAN, AfterToken(c, again) PROVE LoginInv'
    <3>1. PICK q : /\ poller' = [poller EXCEPT ![c] = q] /\ q \in PollStates /\ q.s = s
                   /\ \/ q.at = "add"
                      \/ q.at = "disable" /\ login[s].target \in Targets
                      \/ q.at = "done" /\ ~q.refresh
                      \/ q.at = "done" /\ login[s].target \notin Targets
      BY <1>3, <2>4
    <3>2. PollAt(c, "exchange") /\ UNCHANGED <<account, added>>
      BY <1>4 DEF Exchange
    <3> QED
      BY <1>1, <2>1, <2>2, <3>1, <3>2, TokenGranted
  <2> QED
    BY <1>4, <2>3, <2>4 DEF Exchange
<1>5. CASE AskService(c)
  <2>1. ~Social(s) /\ PollAt(c, "ask")
    BY <1>5 DEF AskService, CodeInv
  <2>2. CASE Finish(c) /\ UNCHANGED <<login, exchanged>>
    <3>1. SessionStep
      BY <1>2, <2>2 DEF SessionStep
    <3> QED
      BY <1>5, <2>2, <3>1, RequestMoves DEF AskService, Finish
  <2>3. CASE Finish(c) /\ login' = [login EXCEPT ![s] = Ended(@)] /\ UNCHANGED exchanged
    <3>1. SessionStep
      BY <1>1, <1>2, <2>3, EndedType DEF SessionStep
    <3> QED
      BY <1>5, <2>3, <3>1, RequestMoves DEF AskService, Finish
  <2>4. ASSUME NEW again \in BOOLEAN, AfterToken(c, again), login[s].grant = "approved",
               login' = [login EXCEPT ![s] = [Ended(@) EXCEPT !.grant = "used"]]
        PROVE  LoginInv'
    <3> DEFINE l == [Ended(login[s]) EXCEPT !.grant = "used"]
    <3>1. l \in LoginStates /\ l.at = "ended" /\ l.grant = "used" /\ l.kind = login[s].kind
          /\ l.target = login[s].target
      BY <1>1, EndedType DEF LoginStates
    <3>2. login' = [login EXCEPT ![s] = l]
      BY <2>4
    <3> HIDE DEF l
    <3>3. SessionStep /\ login'[s].at = "ended" /\ login'[s].grant = "used"
      BY <1>1, <1>2, <3>1, <3>2 DEF SessionStep
    <3>4. exchanged[s] = 0
      BY <1>1, <2>1, <2>4 DEF CodeInv
    <3> QED
      <4>1. PICK q : /\ poller' = [poller EXCEPT ![c] = q] /\ q \in PollStates /\ q.s = s
                     /\ \/ q.at = "add"
                        \/ q.at = "disable" /\ login[s].target \in Targets
                        \/ q.at = "done" /\ ~q.refresh
                        \/ q.at = "done" /\ login[s].target \notin Targets
        BY <1>3, <2>4
      <4>2. exchanged' = [exchanged EXCEPT ![s] = @ + 1] /\ UNCHANGED <<account, added>>
        BY <1>5, <2>4 DEF AskService, AfterToken
      <4> QED
        BY <1>1, <2>1, <3>3, <3>4, <4>1, <4>2, TokenGranted
  <2> QED
    BY <1>1, <1>5, <2>2, <2>3, <2>4 DEF AskService, ServiceAnswers
<1>6. CASE AddAccount(c)
  <2>1. exchanged[s] = 1 /\ added[s] = 0
    BY <1>6 DEF AddAccount, CodeInv
  <2>2. \A d \in Pollers \ {c} : PollAt(d, "add") => poller[d].s # s
    BY <1>6 DEF AddAccount, CodeInv, PollAt
  <2>3. /\ added' \in [Logins -> Nat] /\ added'[s] \in {0, 1}
        /\ \A t \in Logins \ {s} : added'[t] = added[t]
    BY <1>1, <1>6, <2>1 DEF AddAccount, LoginTypeOK
  <2>4. poller' = [poller EXCEPT ![c] = NoPoll] /\ UNCHANGED <<login, account, exchanged>>
    BY <1>6 DEF AddAccount, Finish
  <2>5. LoginTypeOK'
    BY <2>3, <2>4 DEF LoginTypeOK
  <2>6. CodeInv'
    BY <1>1, <2>1, <2>2, <2>3, <2>4, Busy
    DEF CodeInv, LoginTypeOK, PollAt, Social, NoPoll, SocialPlaces
  <2>7. ReloginInv'
    BY <2>4 DEF ReloginInv, LoginTypeOK, Aim, Relogin, NoPoll
  <2> QED
    BY <2>5, <2>6, <2>7
<1> QED
  BY <1>4, <1>5, <1>6

AccountStates == [present : BOOLEAN, enabled : BOOLEAN, token : Logins \union {Old}]

\* What a change of account x to `new` makes of request d: it is disturbed, is
\* answered, or has made the change itself and goes on.
Follows(d, x, new) ==
    \/ poller'[d] = Disturb(x, poller)[d]
    \/ poller'[d] = NoPoll
    \/ LET q == poller'[d] IN
       /\ q \in PollStates /\ q.s = poller[d].s /\ poller[d].at # "idle"
       /\ Aim(d) = x /\ q.at \in {"update", "enable", "done"}
       /\ q.at = "update" => new.present /\ ~new.enabled
       /\ q.at = "enable" => new.present /\ ~new.enabled /\ new.token = q.s
       /\ q.at = "done" /\ q.alone =>
             new = [present |-> TRUE, enabled |-> TRUE, token |-> q.s]

\* Somebody changes account x: whoever else signs it in is disturbed.
LEMMA AccountMoves ==
    ASSUME LoginInv, UNCHANGED <<login, exchanged, added>>,
           NEW x \in Targets, NEW new \in AccountStates,
           account' = [account EXCEPT ![x] = new],
           DOMAIN poller' = Pollers,
           \A d \in Pollers : Follows(d, x, new)
    PROVE  LoginInv'
<1> USE DEF LoginInv, Follows
<1> DEFINE others == {d \in Pollers : poller'[d] = Disturb(x, poller)[d]}
<1>1. ASSUME NEW d \in others
      PROVE  \/ poller[d] = NoPoll /\ poller'[d] = NoPoll
             \/ /\ poller[d] \in PollStates /\ poller'[d] \in PollStates
                /\ poller'[d].at = poller[d].at /\ poller'[d].s = poller[d].s
                /\ poller'[d].refresh = poller[d].refresh
                /\ poller'[d].alone => poller[d].alone /\ Aim(d) # x
  <2>1. poller'[d] = IF Aim(d) = x THEN [poller[d] EXCEPT !.alone = FALSE] ELSE poller[d]
    BY DEF Disturb, Aim
  <2>2. CASE poller[d] = NoPoll
    <3>1. [NoPoll EXCEPT !.alone = FALSE] = NoPoll
      <4>1. PICK any : NoPoll = [at |-> "idle", s |-> any, state |-> "none",
                                 refresh |-> FALSE, alone |-> FALSE]
        BY BlankPoll
      <4>2. /\ NoPoll \in [at : {"idle"}, s : {any}, state : {"none"}, refresh : {FALSE},
                           alone : BOOLEAN]
            /\ ~NoPoll.alone
        BY <4>1
      <4> QED
        BY <4>2
    <3> QED
      BY <2>1, <2>2, <3>1
  <2>3. CASE poller[d] \in PollStates
    <3> DEFINE p == poller[d]
               q == [p EXCEPT !.alone = FALSE]
    <3>1. /\ q \in PollStates /\ q.at = p.at /\ q.s = p.s /\ q.refresh = p.refresh
          /\ q.alone = FALSE
      BY <2>3 DEF PollStates
    <3> HIDE DEF q
    <3>2. CASE Aim(d) = x
      <4>1. poller'[d] = q
        BY <2>1, <3>2 DEF q
      <4> QED
        BY <2>3, <3>1, <4>1
    <3>3. CASE Aim(d) # x
      BY <2>1, <2>3, <3>3
    <3> QED
      BY <3>2, <3>3
  <2> QED
    BY <2>2, <2>3 DEF LoginTypeOK
<1>2. \A d \in Pollers : poller[d].at # "idle" => Aim(d)' = login[poller'[d].s].target
  BY DEF Aim
<1>3. \A d \in Pollers : \/ poller'[d] = NoPoll
                         \/ /\ poller'[d] \in PollStates /\ poller'[d].s = poller[d].s
                            /\ poller[d].at # "idle" /\ Aim(d)' = Aim(d)
  BY <1>1 DEF Aim, PollStates, SocialPlaces, Relogin
<1>4. LoginTypeOK'
  BY <1>3, Busy DEF LoginTypeOK, AccountStates
<1>5. CodeInv'
  <2>1. \A d \in Pollers :
          poller'[d].at \in {"ask", "add"} \union SocialPlaces =>
             /\ poller[d].at = poller'[d].at /\ poller[d].s = poller'[d].s
    <3> SUFFICES ASSUME NEW d \in Pollers, poller'[d].at \in {"ask", "add"} \union SocialPlaces
                 PROVE  poller[d].at = poller'[d].at /\ poller[d].s = poller'[d].s
      OBVIOUS
    <3>1. poller'[d].at \notin {"idle", "update", "enable", "done"}
      BY DEF SocialPlaces
    <3>2. poller'[d] # NoPoll
      BY <3>1 DEF NoPoll
    <3>3. d \in others
      BY <3>1, <3>2
    <3> QED
      BY <1>1, <3>2, <3>3
  <2> QED
    BY <2>1 DEF CodeInv, Social, PollAt, SocialPlaces
<1>6. ReloginInv'
  <2> SUFFICES ASSUME NEW d \in Pollers
               PROVE  (LET y == Aim(d)
                           p == poller[d]
                       IN  /\ p.at \in Relogin => y \in Targets
                           /\ p.alone /\ p.at = "update" =>
                                 account[y].present /\ ~account[y].enabled
                           /\ p.alone /\ p.at = "enable" =>
                                 /\ account[y].present /\ ~account[y].enabled
                                 /\ account[y].token = p.s
                           /\ p.alone /\ p.at = "done" /\ p.refresh /\ y \in Targets =>
                                 account[y] = [present |-> TRUE, enabled |-> TRUE,
                                               token |-> p.s])'
    BY DEF ReloginInv
  <2>1. CASE poller'[d] = NoPoll
    BY <2>1 DEF NoPoll, Relogin
  <2>2. CASE poller'[d] # NoPoll /\ d \in others
    <3>1. /\ poller'[d].at = poller[d].at /\ poller'[d].s = poller[d].s
          /\ poller'[d].refresh = poller[d].refresh /\ Aim(d)' = Aim(d)
          /\ poller'[d].alone => poller[d].alone /\ Aim(d) # x
      BY <1>1, <1>3, <2>2
    <3>2. Aim(d) # x => account'[Aim(d)] = account[Aim(d)]
      BY DEF LoginTypeOK
    <3> QED
      BY <3>1, <3>2 DEF ReloginInv
  <2>3. CASE poller'[d] # NoPoll /\ d \notin others
    <3>1. Aim(d)' = x /\ account'[x] = new
      BY <1>3, <2>3 DEF LoginTypeOK
    <3> QED
      BY <2>3, <3>1 DEF Relogin
  <2> QED
    BY <2>1, <2>2, <2>3
<1> QED
  BY <1>4, <1>5, <1>6

\* The administrator switches, updates, deletes an account.
LEMMA AccountActions ==
    ASSUME LoginInv,
           \/ \E c \in Pollers : DisableForUpdate(c) \/ UpdateToken(c) \/ EnableAgain(c)
           \/ \E x \in Targets : DeleteAccount(x) \/ \E on \in BOOLEAN : SwitchAccount(x, on)
    PROVE  LoginInv'
<1> USE DEF SameHistory
<1>1. account \in [Targets -> AccountStates] /\ DOMAIN poller = Pollers
  BY DEF LoginInv, LoginTypeOK, AccountStates
<1>2. ASSUME NEW c \in Pollers, Finish(c), UNCHANGED <<login, account, exchanged, added>>
      PROVE  LoginInv'
  <2>1. SessionStep
    BY <1>2 DEF SessionStep, LoginInv, LoginTypeOK
  <2> QED
    BY <1>2, <2>1, RequestMoves DEF Finish
\* A section of a relogin: the account is `new` and the request goes on to
\* `then`, or it was refused or its save failed.
<1>3. ASSUME NEW c \in Pollers, NEW at \in Relogin, NEW may, NEW new,
             NEW then \in {"update", "enable", "done"}, Section(c, at, may, new, then),
             account[Aim(c)].present /\ may =>
                /\ new \in AccountStates
                /\ then = "update" => new.present /\ ~new.enabled
                /\ then = "enable" => new.present /\ ~new.enabled /\ new.token = poller[c].s
                /\ then = "done" /\ poller[c].alone =>
                      new = [present |-> TRUE, enabled |-> TRUE, token |-> poller[c].s]
      PROVE  LoginInv'
  <2> DEFINE x == Aim(c)
  <2>1. PollAt(c, at) /\ poller[c].at # "idle"
    BY <1>3 DEF Section, Relogin, PollAt
  <2>2. x \in Targets /\ poller[c] \in PollStates
    BY <1>3, <2>1, Busy DEF LoginInv, ReloginInv, PollAt
  <2>3. CASE ~(account[x].present /\ may)
    BY <1>2, <1>3, <2>3 DEF Section
  <2>4. CASE account[x].present /\ may
    <3>1. PICK stays \in BOOLEAN :
             poller' = [Disturb(x, poller) EXCEPT
                          ![c] = IF stays THEN [poller[c] EXCEPT !.at = then] ELSE NoPoll]
      BY <1>3, <2>4 DEF Section
    <3>2. account' = [account EXCEPT ![x] = new] /\ UNCHANGED <<login, exchanged, added>>
      BY <1>3, <2>4 DEF Section
    <3> DEFINE q == [poller[c] EXCEPT !.at = then]
    <3>3. /\ q \in PollStates /\ q.s = poller[c].s /\ q.at = then
          /\ q.alone = poller[c].alone
      BY <2>2 DEF PollStates, Relogin
    <3> HIDE DEF q
    <3>4. DOMAIN Disturb(x, poller) = Pollers
      BY DEF Disturb
    <3>5. DOMAIN poller' = Pollers /\ poller'[c] \in {q, NoPoll}
          /\ \A d \in Pollers \ {c} : poller'[d] = Disturb(x, poller)[d]
      BY <3>1, <3>4 DEF q
    <3>6. poller'[c] = NoPoll \/
             /\ q.s = poller[c].s /\ poller[c].at # "idle" /\ poller'[c] = q
             /\ Aim(c) = x /\ q.at \in {"update", "enable", "done"}
             /\ q.at = "update" => new.present /\ ~new.enabled
             /\ q.at = "enable" => new.present /\ ~new.enabled /\ new.token = q.s
             /\ q.at = "done" /\ q.alone =>
                   new = [present |-> TRUE, enabled |-> TRUE, token |-> q.s]
      BY <1>3, <2>1, <2>4, <3>3, <3>5
    <3>7. new \in AccountStates
      BY <1>3, <2>4
    <3>8. \A d \in Pollers : Follows(d, x, new)
      BY <3>3, <3>5, <3>6 DEF Follows
    <3>9. x \in Targets
      BY <2>2
    <3> HIDE DEF x
    <3> QED
      BY LoginInv, <3>2, <3>5, <3>7, <3>8, <3>9, AccountMoves
  <2> QED
    BY <2>3, <2>4
<1>4. ASSUME NEW c \in Pollers, DisableForUpdate(c) PROVE LoginInv'
  <2>1. poller[c].at = "disable" /\ Aim(c) \in Targets
    BY <1>4, Busy DEF DisableForUpdate, Section, PollAt, LoginInv, ReloginInv, Relogin
  <2> DEFINE new == [account[Aim(c)] EXCEPT !.enabled = FALSE]
  <2>2. new \in AccountStates /\ ~new.enabled /\ new.present = account[Aim(c)].present
    BY <1>1, <2>1 DEF AccountStates
  <2>3. Section(c, "disable", TRUE, new, "update")
    BY <1>4 DEF DisableForUpdate
  <2> HIDE DEF new
  <2> QED
    BY <1>3, <2>2, <2>3 DEF Relogin
<1>5. ASSUME NEW c \in Pollers, UpdateToken(c) PROVE LoginInv'
  <2>1. poller[c].at = "update" /\ Aim(c) \in Targets /\ poller[c].s \in Logins
    BY <1>5, Busy DEF UpdateToken, Section, PollAt, LoginInv, ReloginInv, Relogin
  <2> DEFINE new == [account[Aim(c)] EXCEPT !.token = poller[c].s]
             may == ~account[Aim(c)].enabled
  <2>2. /\ new \in AccountStates /\ new.present = account[Aim(c)].present
        /\ new.enabled = account[Aim(c)].enabled /\ new.token = poller[c].s
    BY <1>1, <2>1 DEF AccountStates
  <2>3. CASE Section(c, "update", may, new, "enable")
    <3>1. account[Aim(c)].present /\ may =>
            /\ new \in AccountStates
            /\ new.present /\ ~new.enabled /\ new.token = poller[c].s
      BY <2>2
    <3> HIDE DEF new, may
    <3> QED
      BY <1>3, <2>3, <3>1 DEF Relogin
  <2> QED
    BY <1>2, <1>5, <2>3 DEF UpdateToken
<1>6. ASSUME NEW c \in Pollers, EnableAgain(c) PROVE LoginInv'
  <2>1. poller[c].at = "enable" /\ Aim(c) \in Targets /\ poller[c].s \in Logins
    BY <1>6, Busy DEF EnableAgain, Section, PollAt, LoginInv, ReloginInv, Relogin
  <2> DEFINE new == [account[Aim(c)] EXCEPT !.enabled = TRUE]
  <2>2. /\ new \in AccountStates /\ new.present = account[Aim(c)].present
        /\ new.enabled /\ new.token = account[Aim(c)].token
    BY <1>1, <2>1 DEF AccountStates
  <2>3. Section(c, "enable", TRUE, new, "done")
    BY <1>6 DEF EnableAgain
  <2>4. poller[c].alone => account[Aim(c)].present /\ account[Aim(c)].token = poller[c].s
    BY <2>1 DEF LoginInv, ReloginInv
  <2> HIDE DEF new
  <2>5. poller[c].alone => new = [present |-> TRUE, enabled |-> TRUE, token |-> poller[c].s]
    BY <2>2, <2>4 DEF AccountStates
  <2> QED
    BY <1>3, <2>2, <2>3, <2>5 DEF Relogin
<1>7. ASSUME NEW x \in Targets, NEW new \in AccountStates,
             account' = [account EXCEPT ![x] = new], poller' = Disturb(x, poller),
             UNCHANGED <<login, exchanged, added>>
      PROVE  LoginInv'
  <2>1. DOMAIN poller' = Pollers
    BY <1>7 DEF Disturb
  <2> QED
    BY <1>7, <2>1, AccountMoves DEF Follows
<1>8. ASSUME NEW x \in Targets, DeleteAccount(x) PROVE LoginInv'
  <2>1. [account[x] EXCEPT !.present = FALSE] \in AccountStates
    BY <1>1 DEF AccountStates
  <2> QED
    BY <1>7, <1>8, <2>1 DEF DeleteAccount
<1>9. ASSUME NEW x \in Targets, NEW on \in BOOLEAN, SwitchAccount(x, on) PROVE LoginInv'
  <2>1. [account[x] EXCEPT !.enabled = on] \in AccountStates
    BY <1>1 DEF AccountStates
  <2> QED
    BY <1>7, <1>9, <2>1 DEF SwitchAccount
<1> QED
  BY <1>4, <1>5, <1>6, <1>8, <1>9

\* Every step of the login flows preserves the invariant.
LEMMA LoginStep == LoginInv /\ [LoginNext]_loginVars => LoginInv'
<1> SUFFICES ASSUME LoginInv, [LoginNext]_loginVars PROVE LoginInv'
  OBVIOUS
<1>1. CASE UNCHANGED loginVars
  <2>1. SessionStep
    BY <1>1 DEF SessionStep, loginVars, LoginInv, LoginTypeOK
  <2> QED
    BY <1>1, <2>1, SessionsMove DEF loginVars
<1>2. CASE \/ \E o \in Offers : StartSocial(o[1], o[2], o[3]) \/ StartIdc(o[1], o[2], o[3])
           \/ \E s \in Logins :
                 CallbackServer(s) \/ Deliver(s) \/ Approve(s) \/ Expire(s)
           \/ Sweep
  BY <1>2, SessionActions, SessionsMove DEF LoginInv
<1>3. ASSUME NEW c \in Pollers,
             \/ \E s \in Logins : \/ PollSocial(c, s) \/ PollIdc(c, s)
                                  \/ \E t \in Logins : Complete(c, s, t)
             \/ Drop(c) \/ Verify(c) \/ Take(c)
      PROVE  LoginInv'
  BY <1>3, RequestActions
<1>4. ASSUME NEW c \in Pollers, Exchange(c) \/ AskService(c) \/ AddAccount(c)
      PROVE  LoginInv'
  BY <1>4, TokenActions
<1>5. CASE \/ \E c \in Pollers : DisableForUpdate(c) \/ UpdateToken(c) \/ EnableAgain(c)
           \/ \E x \in Targets : DeleteAccount(x) \/ \E on \in BOOLEAN : SwitchAccount(x, on)
  BY <1>5, AccountActions
<1> QED
  BY <1>1, <1>2, <1>3, <1>4, <1>5 DEF LoginNext, Serve

\* However sessions, browsers, requests and the administrator interleave, a login
\* is delivered as its session was begun: the property LoginsDeliver.
THEOREM LoginsAlwaysDeliver == LoginSpec => []LoginsDeliver
<1>1. LoginInv => LoginsDeliver
  <2>1. LoginInv => SessionsCountOnce
    BY DEF LoginInv, CodeInv, SessionsCountOnce
  <2>2. LoginInv => ReloginDelivers
    BY DEF LoginInv, ReloginInv, ReloginDelivers, PollAt
  <2> QED
    BY <2>1, <2>2 DEF LoginsDeliver
<1>2. LoginInit => LoginInv
  BY LoginInvInit
<1>3. LoginInv /\ [LoginNext]_loginVars => LoginInv'
  BY LoginStep
<1> QED
  BY <1>1, <1>2, <1>3, PTL DEF LoginSpec

-----------------------------------------------------------------------------
(* Groups.                                                                   *)

Memberships == [Accounts -> SUBSET GroupNames]
Bindings == [BoundKeys -> GroupNames \union {Unbound}]

CallPlaces ==
    {"idle", "rename", "accounts", "save", "keys", "setting", "count", "remove", "delete"}

CallStates ==
    [op : {"none", "create", "delete", "force", "setting", "rename"},
     name : GroupNames \union {Unbound}, to : GroupNames \union {Unbound}, at : CallPlaces,
     before : {<<>>} \union (Memberships \X Bindings), alone : BOOLEAN,
     late : SUBSET Accounts, ok : BOOLEAN]

RefreshStates ==
    [at : {"idle", "waits", "sends", "saves"}, account : Accounts \union {Unbound},
     groups : SUBSET GroupNames]

GroupsTypeOK ==
    /\ members \in Memberships /\ membersFile \in Memberships
    /\ bound \in Bindings /\ boundFile \in Bindings
    /\ call \in [Admins -> CallStates]
    /\ refresh \in [Refreshers -> RefreshStates]

\* The groups that x, or a copy of it, has while c renames; `renamed` says whether c
\* has got to the accounts.
Right(c, renamed, x, groups) ==
    \/ groups = IF renamed THEN Renamed(c.before[1][x], c.name, c.to) ELSE c.before[1][x]
    \/ renamed /\ x \in c.late /\ groups = c.before[1][x]

AccountsAre(c, renamed) ==
    \A x \in Accounts :
        /\ Right(c, renamed, x, members[x])
        /\ \A r \in Refreshers : Carries(r, x) => Right(c, renamed, x, refresh[r].groups)

KeysAre(c, renamed) ==
    \A k \in BoundKeys :
        bound[k] = IF renamed /\ c.before[2][k] = c.name THEN c.to ELSE c.before[2][k]

AccountsSaved(c) ==
    \A x \in Accounts \ c.late : c.before[1][x] # members[x] => membersFile[x] = members[x]

\* What is true of the stores while a rename that nobody disturbs is at its place.
Stage(c, at) ==
    /\ at \in {"rename", "accounts"} => AccountsAre(c, FALSE)
    /\ at \notin {"rename", "accounts"} => AccountsAre(c, TRUE)
    /\ at \in {"setting", "idle"} => KeysAre(c, TRUE)
    /\ at \notin {"setting", "idle"} => KeysAre(c, FALSE)
    /\ at \in {"keys", "setting", "idle"} => AccountsSaved(c)

RenamePlaces == {"rename", "accounts", "save", "keys", "setting", "idle"}

RenameOK(c) ==
    /\ c.at \in {"rename", "accounts"} => c.op = "rename"
    /\ c.op = "rename" =>
        /\ c.name \in GroupNames /\ c.to \in GroupNames /\ c.name # c.to
        /\ c.at \in RenamePlaces
    /\ c.alone =>
        /\ c.op = "rename" /\ c.before \in Memberships \X Bindings
        /\ Stage(c, c.at)

RenameInv == \A a \in Admins : RenameOK(call[a])

GroupsInv == GroupsTypeOK /\ RenameInv

StoresTyped ==
    /\ members' \in Memberships /\ membersFile' \in Memberships
    /\ bound' \in Bindings /\ boundFile' \in Bindings
    /\ UNCHANGED refresh

\* A call that has ended leaves nothing to be said of it.
LEMMA Nothing ==
    /\ NoCall \in CallStates /\ NoCall.op = "none" /\ NoCall.at = "idle" /\ ~NoCall.alone
    /\ RenameOK(NoCall) /\ RenameOK(NoCall)'
    /\ NoRefresh \in RefreshStates /\ NoRefresh.at = "idle"
<1>1. /\ NoCall \in CallStates /\ NoCall.op = "none" /\ NoCall.at = "idle" /\ ~NoCall.alone
      /\ NoRefresh \in RefreshStates /\ NoRefresh.at = "idle"
  BY DEF NoCall, NoRefresh, CallStates, CallPlaces, RefreshStates
<1> QED
  BY <1>1 DEF RenameOK

\* A call that steps leaves the invariant when the call itself is as it should be.
LEMMA CallSteps ==
    ASSUME GroupsInv, NEW a \in Admins, NEW q \in CallStates, CallMoves(a, q), StoresTyped,
           RenameOK(q)'
    PROVE  GroupsInv'
<1>1. \A b \in Admins : call[b] \in CallStates /\ RenameOK(call[b])
  BY DEF GroupsInv, GroupsTypeOK, RenameInv
<1>2. ASSUME NEW b \in Admins \ {a}
      PROVE  call'[b] \in CallStates /\ RenameOK(call[b])'
  <2>1. call'[b] = Disturbed(call[b])
    BY DEF CallMoves
  <2>2. CASE call[b].at = "idle"
    <3>1. call'[b] = NoCall
      BY <2>1, <2>2 DEF Disturbed
    <3> QED
      BY <3>1, Nothing DEF RenameOK
  <2>3. CASE call[b].at # "idle"
    <3> DEFINE p == [call[b] EXCEPT !.before = <<>>, !.alone = FALSE, !.late = {}]
    <3>1. call'[b] = p
      BY <2>1, <2>3 DEF Disturbed
    <3>2. /\ p \in CallStates /\ ~p.alone /\ p.op = call[b].op /\ p.name = call[b].name
          /\ p.to = call[b].to /\ p.at = call[b].at
      BY <1>1 DEF CallStates
    <3> HIDE DEF p
    <3> QED
      BY <1>1, <3>1, <3>2 DEF RenameOK
  <2> QED
    BY <2>2, <2>3
<1>3. call'[a] = q
  BY DEF CallMoves
<1>4. call' \in [Admins -> CallStates]
  BY <1>2, <1>3 DEF CallMoves
<1>5. GroupsTypeOK'
  BY <1>4 DEF StoresTyped, GroupsTypeOK, GroupsInv
<1>6. RenameInv'
  BY <1>2, <1>3 DEF RenameInv
<1> QED
  BY <1>5, <1>6 DEF GroupsInv

\* A call that ends without success.
LEMMA Fails ==
    ASSUME GroupsInv, NEW a \in Admins, StoresTyped, Return(a, FALSE)
    PROVE  GroupsInv'
<1>1. CallMoves(a, NoCall)
  BY DEF Return
<1> QED
  BY <1>1, Nothing, CallSteps

\* A call that goes on to a place, or succeeds, and leaves the stores as they are there.
LEMMA GoesOn ==
    ASSUME GroupsInv, NEW a \in Admins, StoresTyped, NEW c \in CallStates, c = call[a],
           NEW at \in CallPlaces,
           Goto(a, at) \/ (Return(a, TRUE) /\ at = "idle"),
           at \in {"rename", "accounts"} => c.op = "rename",
           c.op = "rename" => at \in RenamePlaces,
           c.alone => Stage(c, at)'
    PROVE  GroupsInv'
<1>1. RenameOK(c)
  BY DEF GroupsInv, RenameInv
<1>2. CASE Return(a, TRUE) /\ ~c.alone
  <2>1. CallMoves(a, NoCall)
    BY <1>2 DEF Return
  <2> QED
    BY <2>1, Nothing, CallSteps
<1>3. CASE Goto(a, at) \/ (Return(a, TRUE) /\ at = "idle" /\ c.alone)
  <2>1. PICK q \in CallStates :
           /\ CallMoves(a, q) /\ q.at = at /\ q.op = c.op /\ q.name = c.name /\ q.to = c.to
           /\ q.before = c.before /\ q.alone = c.alone /\ q.late = c.late
    <3>1. CASE Goto(a, at)
      <4> DEFINE q == [c EXCEPT !.at = at]
      <4>1. /\ q \in CallStates /\ q.at = at /\ q.op = c.op /\ q.name = c.name /\ q.to = c.to
            /\ q.before = c.before /\ q.alone = c.alone /\ q.late = c.late
        BY DEF CallStates
      <4>2. CallMoves(a, q)
        BY <3>1 DEF Goto
      <4> QED
        BY <4>1, <4>2
    <3>2. CASE Return(a, TRUE) /\ at = "idle" /\ c.alone
      <4> DEFINE q == [c EXCEPT !.at = "idle", !.ok = TRUE]
      <4>1. /\ q \in CallStates /\ q.at = at /\ q.op = c.op /\ q.name = c.name /\ q.to = c.to
            /\ q.before = c.before /\ q.alone = c.alone /\ q.late = c.late
        BY <3>2 DEF CallStates, CallPlaces
      <4>2. CallMoves(a, q)
        BY <3>2 DEF Return
      <4> QED
        BY <4>1, <4>2
    <3> QED
      BY <1>3, <3>1, <3>2
  <2>2. c.alone => Stage(q, at)'
    BY <2>1 DEF Stage, AccountsAre, KeysAre, AccountsSaved, Right
  <2>3. RenameOK(q)'
    BY <1>1, <2>1, <2>2 DEF RenameOK
  <2> QED
    BY <2>1, <2>3, CallSteps
<1> QED
  BY <1>2, <1>3

\* What a rename knows of itself.
LEMMA Renaming ==
    ASSUME GroupsInv, NEW a \in Admins
    PROVE  /\ call[a] \in CallStates
           /\ call[a].at \in {"rename", "accounts"} => call[a].op = "rename"
           /\ call[a].op = "rename" =>
                 /\ call[a].name \in GroupNames /\ call[a].to \in GroupNames
                 /\ call[a].name # call[a].to /\ call[a].at \in RenamePlaces
           /\ call[a].alone =>
                 /\ call[a].op = "rename" /\ call[a].before \in Memberships \X Bindings
                 /\ Stage(call[a], call[a].at)
BY DEF GroupsInv, GroupsTypeOK, RenameInv, RenameOK

\* Stores that stay leave a rename's stage as it is.
LEMMA SameStage ==
    ASSUME NEW c, NEW at, Stage(c, at),
           UNCHANGED <<members, membersFile, bound, boundFile, refresh>>
    PROVE  Stage(c, at)'
BY DEF Stage, AccountsAre, KeysAre, AccountsSaved, Right, Carries

\* A rename in the registry touches neither accounts nor keys.
LEMMA RegistryStep ==
    ASSUME GroupsInv, NEW a \in Admins, RenameInRegistry(a)
    PROVE  GroupsInv'
<1>1. PICK c \in CallStates : c = call[a]
  BY Renaming
<1>2. /\ c.at = "rename" /\ c.op = "rename"
      /\ c.alone => Stage(c, "rename")
  BY <1>1, Renaming DEF RenameInRegistry, At
<1>3. UNCHANGED <<members, membersFile, bound, boundFile, refresh>> /\ StoresTyped
  BY DEF RenameInRegistry, SameMembers, SameBound, StoresTyped, Stay, SameRefreshes, GroupsInv,
         GroupsTypeOK
<1>4. CASE Goto(a, "accounts")
  <2>1. c.alone => Stage(c, "rename")'
    BY <1>2, <1>3, SameStage
  <2>2. c.alone => Stage(c, "accounts")'
    BY <2>1 DEF Stage
  <2>3. "accounts" \in CallPlaces /\ "accounts" \in RenamePlaces
    BY DEF CallPlaces, RenamePlaces
  <2> QED
    BY <1>1, <1>2, <1>3, <1>4, <2>2, <2>3, GoesOn
<1>5. CASE Return(a, FALSE)
  BY <1>3, <1>5, Fails
<1> QED
  BY <1>4, <1>5 DEF RenameInRegistry

\* A rename in the accounts, in memory: what a refresh carries of an account makes
\* the account a late one.
LEMMA MembersStep ==
    ASSUME GroupsInv, NEW a \in Admins, RenameInAccounts(a)
    PROVE  GroupsInv'
<1>1. PICK c \in CallStates : c = call[a]
  BY Renaming
<1>2. /\ c.at = "accounts" /\ c.op = "rename" /\ c.to \in GroupNames /\ c.name \in GroupNames
      /\ c.name # c.to
      /\ c.alone => Stage(c, "accounts") /\ c.before \in Memberships \X Bindings
  BY <1>1, Renaming DEF RenameInAccounts, At
<1>3. /\ UNCHANGED <<membersFile, bound, boundFile, refresh>>
      /\ members' = [x \in Accounts |-> Renamed(members[x], c.name, c.to)]
  BY <1>1 DEF RenameInAccounts, SameBound, Stay, SameRefreshes
<1>4. StoresTyped
  BY <1>2, <1>3 DEF StoresTyped, GroupsInv, GroupsTypeOK, Memberships, Renamed
<1>5. PICK at \in {"keys", "save"} : at = IF members' = members THEN "keys" ELSE "save"
  OBVIOUS
<1>6. PICK late \in SUBSET Accounts : late = IF c.alone THEN Late ELSE {}
  BY DEF Late
<1>7. PICK q \in CallStates :
         /\ CallMoves(a, q) /\ q.at = at /\ q.op = c.op /\ q.name = c.name /\ q.to = c.to
         /\ q.before = c.before /\ q.alone = c.alone /\ q.late = late
  <2> DEFINE q == [c EXCEPT !.at = at, !.late = late]
  <2>1. /\ q \in CallStates /\ q.at = at /\ q.op = c.op /\ q.name = c.name /\ q.to = c.to
        /\ q.before = c.before /\ q.alone = c.alone /\ q.late = late
    BY DEF CallStates, CallPlaces
  <2>2. CallMoves(a, q)
    BY <1>1, <1>5, <1>6 DEF RenameInAccounts
  <2> QED
    BY <2>1, <2>2
<1>8. ASSUME c.alone
      PROVE  Stage(q, at)'
  <2>1. /\ \A x \in Accounts : members[x] = c.before[1][x]
        /\ \A x \in Accounts, r \in Refreshers :
              Carries(r, x) => refresh[r].groups = c.before[1][x]
        /\ KeysAre(c, FALSE)
    BY <1>2, <1>8 DEF Stage, AccountsAre, Right
  <2>2. \A x \in Accounts, r \in Refreshers : Carries(r, x)' => Carries(r, x) /\ x \in late
    BY <1>3, <1>6, <1>8 DEF Carries, Late
  <2>3. AccountsAre(q, TRUE)'
    BY <1>3, <1>7, <2>1, <2>2 DEF AccountsAre, Right
  <2>4. KeysAre(q, FALSE)'
    BY <1>3, <1>7, <2>1 DEF KeysAre
  <2>5. at = "keys" => AccountsSaved(q)'
    BY <1>5, <1>7, <2>1 DEF AccountsSaved
  <2> QED
    BY <2>3, <2>4, <2>5 DEF Stage
<1>9. RenameOK(q)'
  BY <1>2, <1>7, <1>8 DEF RenameOK, RenamePlaces
<1> QED
  BY <1>4, <1>7, <1>9, CallSteps

\* The accounts are saved, or the call ends with an error.
LEMMA SaveMembersStep ==
    ASSUME GroupsInv, NEW a \in Admins, SaveAccounts(a)
    PROVE  GroupsInv'
<1>1. PICK c \in CallStates : c = call[a]
  BY Renaming
<1>2. /\ c.at = "save" /\ UNCHANGED <<members, bound, boundFile, refresh>>
      /\ c.alone => Stage(c, "save")
  BY <1>1, Renaming DEF SaveAccounts, At, SameBound, Stay, SameRefreshes
<1>3. \/ membersFile' = members /\ Goto(a, "keys")
      \/ UNCHANGED membersFile /\ Return(a, FALSE)
  BY DEF SaveAccounts
<1>4. StoresTyped
  BY <1>2, <1>3 DEF StoresTyped, GroupsInv, GroupsTypeOK
<1>5. CASE membersFile' = members /\ Goto(a, "keys")
  <2>1. c.alone => AccountsAre(c, TRUE)' /\ KeysAre(c, FALSE)'
    BY <1>2 DEF Stage, AccountsAre, KeysAre, Right, Carries
  <2>2. AccountsSaved(c)'
    BY <1>2, <1>5 DEF AccountsSaved
  <2>3. c.alone => Stage(c, "keys")'
    BY <2>1, <2>2 DEF Stage
  <2>4. "keys" \in CallPlaces /\ "keys" \in RenamePlaces
    BY DEF CallPlaces, RenamePlaces
  <2> QED
    BY <1>1, <1>4, <1>5, <2>3, <2>4, GoesOn
<1>6. CASE Return(a, FALSE)
  BY <1>4, <1>6, Fails
<1> QED
  BY <1>3, <1>5, <1>6

\* A rename in the keys.
LEMMA BoundKeysStep ==
    ASSUME GroupsInv, NEW a \in Admins, RenameInKeys(a)
    PROVE  GroupsInv'
<1>1. PICK c \in CallStates : c = call[a]
  BY Renaming
<1>2. /\ c.at = "keys" /\ c.op = "rename" /\ c.to \in GroupNames
      /\ c.alone => Stage(c, "keys")
  BY <1>1, Renaming DEF RenameInKeys, At
<1>3. /\ UNCHANGED <<members, membersFile, refresh>> /\ Goto(a, "setting")
      /\ bound' \in Bindings /\ boundFile' \in Bindings
      /\ \A k \in BoundKeys : bound'[k] = IF bound[k] = c.name THEN c.to ELSE bound[k]
  <2>1. bound \in Bindings /\ boundFile \in Bindings
    BY DEF GroupsInv, GroupsTypeOK
  <2>2. CASE \E k \in BoundKeys : bound[k] = c.name
    <3>1. /\ bound' = [k \in BoundKeys |-> IF bound[k] = c.name THEN c.to ELSE bound[k]]
          /\ boundFile' \in {bound', boundFile}
      BY <1>1, <2>2 DEF RenameInKeys, SaveBound
    <3> QED
      BY <1>2, <2>1, <3>1 DEF RenameInKeys, SameMembers, Bindings, Stay, SameRefreshes
  <2>3. CASE ~ \E k \in BoundKeys : bound[k] = c.name
    BY <1>1, <2>1, <2>3 DEF RenameInKeys, SameMembers, SameBound, Stay, SameRefreshes
  <2> QED
    BY <2>2, <2>3
<1>4. StoresTyped
  BY <1>3 DEF StoresTyped, GroupsInv, GroupsTypeOK
<1>5. c.alone => AccountsAre(c, TRUE)' /\ AccountsSaved(c)'
  BY <1>2, <1>3 DEF Stage, AccountsAre, AccountsSaved, Right, Carries
<1>6. c.alone => KeysAre(c, TRUE)'
  BY <1>2, <1>3 DEF Stage, KeysAre
<1>7. c.alone => Stage(c, "setting")'
  BY <1>5, <1>6 DEF Stage
<1>8. "setting" \in CallPlaces /\ "setting" \in RenamePlaces
  BY DEF CallPlaces, RenamePlaces
<1> QED
  BY <1>1, <1>3, <1>4, <1>7, <1>8, GoesOn

\* The setting is written last, and the call answered.
LEMMA SettingStep ==
    ASSUME GroupsInv, NEW a \in Admins, SetSetting(a)
    PROVE  GroupsInv'
<1>1. PICK c \in CallStates : c = call[a]
  BY Renaming
<1>2. /\ c.at = "setting" /\ UNCHANGED <<members, membersFile, bound, boundFile, refresh>>
      /\ c.alone => Stage(c, "setting")
  BY <1>1, Renaming DEF SetSetting, At, SameMembers, SameBound, Stay, SameRefreshes
<1>3. Return(a, TRUE) \/ Return(a, FALSE)
  BY DEF SetSetting
<1>4. StoresTyped
  BY <1>2 DEF StoresTyped, GroupsInv, GroupsTypeOK
<1>5. CASE Return(a, TRUE)
  <2>1. c.alone => Stage(c, "setting")'
    BY <1>2, SameStage
  <2>2. c.alone => Stage(c, "idle")'
    BY <2>1 DEF Stage
  <2>3. "idle" \in CallPlaces /\ "idle" \in RenamePlaces
    BY DEF CallPlaces, RenamePlaces
  <2> QED
    BY <1>1, <1>4, <1>5, <2>2, <2>3, GoesOn
<1>6. CASE Return(a, FALSE)
  BY <1>4, <1>6, Fails
<1> QED
  BY <1>3, <1>5, <1>6

\* The sections of a deletion.
LEMMA DeletionStep ==
    ASSUME GroupsInv, NEW a \in Admins,
           CountUses(a) \/ RemoveFromAccounts(a) \/ ClearKeys(a) \/ DeleteGroup(a)
    PROVE  GroupsInv'
<1>1. PICK c \in CallStates : c = call[a]
  BY Renaming
<1>2. c.op # "rename" /\ ~c.alone
  BY <1>1, Renaming DEF CountUses, RemoveFromAccounts, ClearKeys, DeleteGroup, At, RenamePlaces
<1>3. StoresTyped
  <2>1. /\ members \in Memberships /\ membersFile \in Memberships
        /\ bound \in Bindings /\ boundFile \in Bindings
    BY DEF GroupsInv, GroupsTypeOK
  <2>2. CASE CountUses(a) \/ DeleteGroup(a)
    BY <2>1, <2>2 DEF CountUses, DeleteGroup, SameMembers, SameBound, StoresTyped, Stay,
                      SameRefreshes
  <2>3. CASE RemoveFromAccounts(a)
    <3>1. members' = [x \in Accounts |-> members[x] \ {c.name}]
      BY <1>1, <2>3 DEF RemoveFromAccounts
    <3> QED
      BY <2>1, <2>3, <3>1 DEF RemoveFromAccounts, SameBound, StoresTyped, Memberships, Stay,
                              SameRefreshes
  <2>4. CASE ClearKeys(a)
    BY <1>1, <2>1, <2>4 DEF ClearKeys, SameMembers, SameBound, SaveBound, StoresTyped, Bindings,
                            Stay, SameRefreshes
  <2> QED
    BY <2>2, <2>3, <2>4
<1>4. \/ \E at \in {"remove", "delete", "keys", "save"} : Goto(a, at)
      \/ Return(a, TRUE) \/ Return(a, FALSE)
  BY DEF CountUses, RemoveFromAccounts, ClearKeys, DeleteGroup
<1>5. CASE Return(a, FALSE)
  BY <1>3, <1>5, Fails
<1>6. CASE \/ \E at \in {"remove", "delete", "keys", "save"} : Goto(a, at)
           \/ Return(a, TRUE)
  <2>1. PICK at \in CallPlaces : /\ Goto(a, at) \/ (Return(a, TRUE) /\ at = "idle")
                                 /\ at \notin {"rename", "accounts"}
    BY <1>6 DEF CallPlaces
  <2> QED
    BY <1>1, <1>2, <1>3, <2>1, GoesOn
<1> QED
  BY <1>4, <1>5, <1>6

\* A call that begins finds the stores as they are.
LEMMA BeginStep ==
    ASSUME GroupsInv, NEW a \in Admins, NEW name \in GroupNames, NEW to \in GroupNames,
           \/ \E op \in {"delete", "force"} : Begin(a, op, name, to, "count")
           \/ Begin(a, "setting", name, to, "setting")
           \/ name # to /\ Begin(a, "rename", name, to, "rename")
    PROVE  GroupsInv'
<1>1. PICK op \in {"delete", "force", "setting", "rename"}, at \in {"count", "setting", "rename"} :
         /\ Begin(a, op, name, to, at)
         /\ op = "rename" <=> at = "rename"
         /\ op = "rename" => name # to
  OBVIOUS
<1>2. UNCHANGED <<members, membersFile, bound, boundFile, refresh>>
  BY <1>1 DEF Begin, SameMembers, SameBound, SameRefreshes
<1>3. /\ members \in Memberships /\ membersFile \in Memberships
      /\ bound \in Bindings /\ boundFile \in Bindings /\ call \in [Admins -> CallStates]
      /\ refresh \in [Refreshers -> RefreshStates]
  BY DEF GroupsInv, GroupsTypeOK
<1>4. PICK m \in Memberships, d \in Bindings : m = members /\ d = bound
  BY <1>3
<1>5. PICK q \in CallStates :
         /\ call' = [call EXCEPT ![a] = q]
         /\ q.op = op /\ q.name = name /\ q.to = to /\ q.at = at /\ q.late = {}
         /\ q.alone => /\ op = "rename" /\ q.before = <<m, d>>
                       /\ \A r \in Refreshers, x \in Accounts :
                             Carries(r, x) => refresh[r].groups = m[x]
  <2>1. PICK alone \in BOOLEAN :
           alone <=> /\ op = "rename" /\ \A b \in Admins : At(b, "idle")
                     /\ \A r \in Refreshers, x \in Accounts :
                           Carries(r, x) => refresh[r].groups = members[x]
    OBVIOUS
  <2> DEFINE q == [op |-> op, name |-> name, to |-> to, at |-> at, ok |-> FALSE,
                   before |-> IF alone THEN <<m, d>> ELSE <<>>, alone |-> alone, late |-> {}]
  <2>2. call' = [call EXCEPT ![a] = q]
    BY <1>1, <1>4, <2>1, Zenon DEF Begin
  <2>3. q \in CallStates
    BY DEF CallStates, CallPlaces
  <2>4. /\ q.op = op /\ q.name = name /\ q.to = to /\ q.at = at /\ q.late = {}
        /\ q.alone => alone /\ q.before = <<m, d>>
    OBVIOUS
  <2> HIDE DEF q
  <2> QED
    BY <1>4, <2>1, <2>2, <2>3, <2>4
<1>6. RenameOK(q)'
  <2>1. ASSUME q.alone
        PROVE  q.before \in Memberships \X Bindings /\ Stage(q, "rename")'
    <3>1. q.before[1] = m /\ q.before[2] = d /\ q.before \in Memberships \X Bindings
      BY <1>5, <2>1
    <3>2. AccountsAre(q, FALSE)'
      BY <1>2, <1>4, <1>5, <2>1, <3>1 DEF AccountsAre, Right, Carries
    <3>3. KeysAre(q, FALSE)'
      BY <1>2, <1>4, <3>1 DEF KeysAre
    <3> QED
      BY <3>1, <3>2, <3>3 DEF Stage
  <2> QED
    BY <1>1, <1>5, <2>1 DEF RenameOK, RenamePlaces
<1>7. ASSUME NEW b \in Admins \ {a}
      PROVE  RenameOK(call[b])'
  <2>1. call'[b] = call[b] /\ RenameOK(call[b])
    BY <1>3, <1>5 DEF GroupsInv, RenameInv
  <2>2. call[b].alone => Stage(call[b], call[b].at) /\ call'[b] = call[b]
    BY <2>1 DEF RenameOK
  <2>3. PICK p \in CallStates : p = call[b] /\ call'[b] = p
    BY <1>3, <2>1
  <2>4. p.alone => Stage(p, p.at)'
    BY <1>2, <2>2, <2>3, SameStage
  <2>5. RenameOK(p)'
    BY <2>1, <2>3, <2>4 DEF RenameOK
  <2> QED
    BY <2>3, <2>5 DEF RenameOK
<1>8. call'[a] = q /\ call' \in [Admins -> CallStates]
  BY <1>3, <1>5
<1>9. GroupsTypeOK'
  BY <1>2, <1>3, <1>8 DEF GroupsTypeOK
<1>10. RenameInv'
  BY <1>6, <1>7, <1>8 DEF RenameInv
<1> QED
  BY <1>9, <1>10 DEF GroupsInv

\* A call that creates a group.
LEMMA CreateStep ==
    ASSUME GroupsInv, NEW a \in Admins, NEW name \in GroupNames, CreateGroup(a, name)
    PROVE  GroupsInv'
<1> DEFINE q == [NoCall EXCEPT !.op = "create", !.to = name, !.at = "setting"]
<1>1. q \in CallStates /\ q.op = "create" /\ q.at = "setting" /\ ~q.alone
  BY DEF NoCall, CallStates, CallPlaces
<1>2. CallMoves(a, q)
  BY DEF CreateGroup
<1> HIDE DEF q
<1>3. StoresTyped
  BY DEF CreateGroup, SameMembers, SameBound, SameRefreshes, StoresTyped, GroupsInv, GroupsTypeOK
<1>4. RenameOK(q)'
  BY <1>1 DEF RenameOK
<1> QED
  BY <1>1, <1>2, <1>3, <1>4, CallSteps

\* An account or a key is given other groups: no rename is alone any more.
LEMMA RegroupStep ==
    ASSUME GroupsInv, NEW a \in Admins, Regroup(a)
    PROVE  GroupsInv'
<1>1. CallMoves(a, NoCall)
  BY DEF Regroup
<1>2. StoresTyped
  <2>1. /\ members \in Memberships /\ membersFile \in Memberships
        /\ bound \in Bindings /\ boundFile \in Bindings /\ UNCHANGED refresh
    BY DEF GroupsInv, GroupsTypeOK, Regroup, SameRefreshes
  <2>2. CASE /\ \E x \in Accounts, s \in SUBSET GroupNames : members' = [members EXCEPT ![x] = s]
             /\ membersFile' \in {members', membersFile}
             /\ SameBound
    BY <2>1, <2>2 DEF StoresTyped, SameBound, Memberships
  <2>3. CASE /\ \E k \in BoundKeys, g \in GroupNames : SaveBound([bound EXCEPT ![k] = g])
             /\ SameMembers
    BY <2>1, <2>3 DEF StoresTyped, SameMembers, SaveBound, Bindings
  <2> QED
    BY <2>2, <2>3 DEF Regroup
<1> QED
  BY <1>1, <1>2, Nothing, CallSteps

\* A refresh writes back what is right for the stage of a rename, and saves what
\* is in memory.
LEMMA StageOverRefresh ==
    ASSUME GroupsInv, NEW r \in Refreshers, NEW c \in CallStates, NEW at \in RenamePlaces,
           c.before \in Memberships \X Bindings, Stage(c, at),
           \/ \E x \in Accounts : StartRefresh(r, x)
           \/ LockRefresh(r) \/ RefreshWrites(r) \/ EndRefresh(r)
    PROVE  Stage(c, at)'
<1>1. /\ members \in Memberships /\ refresh \in [Refreshers -> RefreshStates]
  BY DEF GroupsInv, GroupsTypeOK
<1>2. PICK renamed \in BOOLEAN : renamed <=> at \notin {"rename", "accounts"}
  OBVIOUS
<1>3. AccountsAre(c, renamed)
  BY <1>2 DEF Stage
<1>4. UNCHANGED bound
  BY DEF StartRefresh, LockRefresh, RefreshWrites, EndRefresh, SameCalls
<1>5. /\ at \in {"setting", "idle"} => KeysAre(c, TRUE)'
      /\ at \notin {"setting", "idle"} => KeysAre(c, FALSE)'
  BY <1>4 DEF Stage, KeysAre
<1>6. CASE \E x \in Accounts : StartRefresh(r, x)
  <2>1. PICK y \in Accounts, from \in {"waits", "sends"} :
           /\ refresh' = [refresh EXCEPT ![r] =
                             [at |-> from, account |-> y, groups |-> members[y]]]
           /\ UNCHANGED <<members, membersFile>>
    BY <1>6 DEF StartRefresh
  <2>2. AccountsAre(c, renamed)'
    <3>1. \A x \in Accounts, s \in Refreshers :
             Carries(s, x)' => \/ s # r /\ Carries(s, x) /\ refresh'[s] = refresh[s]
                               \/ s = r /\ x = y /\ refresh'[r].groups = members[y]
      BY <1>1, <2>1 DEF Carries
    <3> QED
      BY <1>3, <2>1, <3>1 DEF AccountsAre, Right
  <2> QED
    BY <1>2, <1>5, <2>1, <2>2 DEF Stage, AccountsSaved
<1>7. CASE LockRefresh(r)
  <2>1. /\ refresh[r].at = "waits" /\ refresh' = [refresh EXCEPT ![r].at = "sends"]
        /\ UNCHANGED <<members, membersFile>>
    BY <1>7 DEF LockRefresh
  <2>2. \A s \in Refreshers :
           /\ refresh'[s].groups = refresh[s].groups /\ refresh'[s].account = refresh[s].account
           /\ refresh'[s].at \in {"waits", "sends"} => refresh[s].at \in {"waits", "sends"}
    BY <1>1, <2>1 DEF RefreshStates
  <2>3. AccountsAre(c, renamed)'
    BY <1>3, <2>1, <2>2 DEF AccountsAre, Right, Carries
  <2> QED
    BY <1>2, <1>5, <2>1, <2>3 DEF Stage, AccountsSaved
<1>8. CASE RefreshWrites(r)
  <2>1. /\ refresh[r].at = "sends" /\ refresh' = [refresh EXCEPT ![r].at = "saves"]
        /\ members' = [members EXCEPT ![refresh[r].account] = refresh[r].groups]
        /\ UNCHANGED membersFile
    BY <1>8 DEF RefreshWrites
  <2>2. \A x \in Accounts : /\ refresh[r].account # x => members'[x] = members[x]
                            /\ refresh[r].account = x => /\ Carries(r, x)
                                                         /\ members'[x] = refresh[r].groups
    BY <1>1, <2>1 DEF Carries, Memberships
  <2>3. \A s \in Refreshers :
           /\ refresh'[s].groups = refresh[s].groups /\ refresh'[s].account = refresh[s].account
           /\ refresh'[s].at \in {"waits", "sends"} => refresh[s].at \in {"waits", "sends"}
    BY <1>1, <2>1 DEF RefreshStates
  <2>4. AccountsAre(c, renamed)'
    BY <1>3, <2>2, <2>3 DEF AccountsAre, Right, Carries
  <2>5. ASSUME at \in {"keys", "setting", "idle"}
        PROVE  AccountsSaved(c)'
    <3>1. renamed /\ AccountsSaved(c)
      BY <1>2, <2>5 DEF Stage
    <3>2. \A x \in Accounts \ c.late : members'[x] = members[x]
      BY <1>3, <2>2, <2>4, <3>1 DEF AccountsAre, Right
    <3> QED
      BY <2>1, <3>1, <3>2 DEF AccountsSaved
  <2> QED
    BY <1>2, <1>5, <2>4, <2>5 DEF Stage
<1>9. CASE EndRefresh(r)
  <2>1. /\ refresh' = [refresh EXCEPT ![r] = NoRefresh] /\ UNCHANGED members
        /\ membersFile' \in {members, membersFile}
    BY <1>9 DEF EndRefresh
  <2>2. \A x \in Accounts, s \in Refreshers :
           Carries(s, x)' => Carries(s, x) /\ refresh'[s] = refresh[s]
    BY <1>1, <2>1, Nothing DEF Carries
  <2>3. AccountsAre(c, renamed)'
    BY <1>3, <2>1, <2>2 DEF AccountsAre, Right
  <2> QED
    BY <1>2, <1>5, <2>1, <2>3 DEF Stage, AccountsSaved
<1> QED
  BY <1>6, <1>7, <1>8, <1>9

\* A step of a refresh.
LEMMA TokenRefreshStep ==
    ASSUME GroupsInv, NEW r \in Refreshers,
           \/ \E x \in Accounts : StartRefresh(r, x)
           \/ LockRefresh(r) \/ RefreshWrites(r) \/ EndRefresh(r)
    PROVE  GroupsInv'
<1>1. UNCHANGED <<bound, boundFile, call>>
  BY DEF StartRefresh, LockRefresh, RefreshWrites, EndRefresh, SameCalls
<1>2. /\ members \in Memberships /\ membersFile \in Memberships
      /\ bound \in Bindings /\ boundFile \in Bindings /\ call \in [Admins -> CallStates]
      /\ refresh \in [Refreshers -> RefreshStates]
  BY DEF GroupsInv, GroupsTypeOK
<1>3. /\ members' \in Memberships /\ membersFile' \in Memberships
      /\ refresh' \in [Refreshers -> RefreshStates]
  <2>1. CASE \E x \in Accounts : StartRefresh(r, x)
    <3>1. PICK y \in Accounts, from \in {"waits", "sends"} :
             /\ refresh' = [refresh EXCEPT ![r] =
                               [at |-> from, account |-> y, groups |-> members[y]]]
             /\ UNCHANGED <<members, membersFile>>
      BY <2>1 DEF StartRefresh
    <3>2. [at |-> from, account |-> y, groups |-> members[y]] \in RefreshStates
      BY <1>2 DEF RefreshStates, Memberships
    <3> QED
      BY <1>2, <3>1, <3>2
  <2>2. CASE LockRefresh(r)
    BY <1>2, <2>2 DEF LockRefresh, RefreshStates
  <2>3. CASE RefreshWrites(r)
    BY <1>2, <2>3 DEF RefreshWrites, RefreshStates, Memberships
  <2>4. CASE EndRefresh(r)
    BY <1>2, <2>4, Nothing DEF EndRefresh
  <2> QED
    BY <2>1, <2>2, <2>3, <2>4
<1>4. ASSUME NEW a \in Admins
      PROVE  RenameOK(call[a])'
  <2>1. PICK p \in CallStates : p = call[a] /\ call'[a] = p
    BY <1>1, <1>2
  <2>2. RenameOK(p)
    BY <2>1 DEF GroupsInv, RenameInv
  <2>3. p.alone => Stage(p, p.at)'
    <3>1. p.alone => /\ p.before \in Memberships \X Bindings /\ Stage(p, p.at)
                     /\ p.at \in RenamePlaces
      BY <2>2 DEF RenameOK
    <3>2. PICK at : at = p.at
      OBVIOUS
    <3> QED
      BY <3>1, <3>2, StageOverRefresh
  <2>4. RenameOK(p)'
    BY <2>2, <2>3 DEF RenameOK
  <2> QED
    BY <2>1, <2>4 DEF RenameOK
<1>5. GroupsTypeOK'
  BY <1>1, <1>2, <1>3 DEF GroupsTypeOK
<1>6. RenameInv'
  BY <1>4 DEF RenameInv
<1> QED
  BY <1>5, <1>6 DEF GroupsInv

\* Every step of the groups preserves the invariant.
LEMMA GroupsStep == GroupsInv /\ [GroupsNext]_groupVars => GroupsInv'
<1> SUFFICES ASSUME GroupsInv, [GroupsNext]_groupVars
             PROVE  GroupsInv'
  OBVIOUS
<1>1. ASSUME NEW a \in Admins, NEW name \in GroupNames,
             \/ CreateGroup(a, name)
             \/ Begin(a, "delete", name, name, "count")
             \/ Begin(a, "force", name, name, "count")
             \/ Begin(a, "setting", name, name, "setting")
             \/ \E to \in GroupNames \ {name} : Begin(a, "rename", name, to, "rename")
      PROVE  GroupsInv'
  BY <1>1, CreateStep, BeginStep
<1>2. ASSUME NEW a \in Admins,
             \/ RenameInRegistry(a) \/ RenameInAccounts(a) \/ SaveAccounts(a)
             \/ RenameInKeys(a) \/ SetSetting(a) \/ CountUses(a) \/ RemoveFromAccounts(a)
             \/ ClearKeys(a) \/ DeleteGroup(a) \/ Regroup(a)
      PROVE  GroupsInv'
  BY <1>2, RegistryStep, MembersStep, SaveMembersStep, BoundKeysStep, SettingStep, DeletionStep,
     RegroupStep
<1>3. ASSUME NEW r \in Refreshers,
             \/ \E x \in Accounts : StartRefresh(r, x)
             \/ LockRefresh(r) \/ RefreshWrites(r) \/ EndRefresh(r)
      PROVE  GroupsInv'
  BY <1>3, TokenRefreshStep
<1>4. CASE RestartGroups
  <2>1. /\ members' = membersFile /\ bound' = boundFile
        /\ UNCHANGED <<membersFile, boundFile>>
        /\ call' = [a \in Admins |-> NoCall]
        /\ refresh' = [r \in Refreshers |-> NoRefresh]
    BY <1>4 DEF RestartGroups
  <2>2. GroupsTypeOK'
    BY <2>1, Nothing DEF GroupsInv, GroupsTypeOK
  <2>3. RenameInv'
    BY <2>1, Nothing DEF RenameInv, RenameOK
  <2> QED
    BY <2>2, <2>3 DEF GroupsInv
<1>5. CASE UNCHANGED groupVars
  <2>1. UNCHANGED <<members, membersFile, bound, boundFile, call, refresh>>
    BY <1>5 DEF groupVars
  <2> QED
    BY <2>1 DEF GroupsInv, GroupsTypeOK, RenameInv, RenameOK, Stage, AccountsAre, KeysAre,
                AccountsSaved, Right, Carries
<1> QED
  BY <1>1, <1>2, <1>3, <1>4, <1>5 DEF GroupsNext

\* The invariant holds at the start.
LEMMA GroupsStart == GroupsInit => GroupsInv
<1> SUFFICES ASSUME GroupsInit
             PROVE  GroupsInv
  OBVIOUS
<1>1. GroupsTypeOK
  BY Nothing, MembersAssumption DEF GroupsInit, GroupsTypeOK, Memberships, Bindings
<1>2. RenameInv
  BY Nothing DEF GroupsInit, RenameInv
<1> QED
  BY <1>1, <1>2 DEF GroupsInv

\* Where a name is in use.
LEMMA InUses ==
    ASSUME NEW m, NEW b, NEW v
    PROVE  v \in Uses(m, b) <=> \/ \E x \in Accounts : v \in m[x]
                                \/ v # Unbound /\ \E k \in BoundKeys : b[k] = v
<1> DEFINE A == UNION {m[x] : x \in Accounts}
           B == {b[k] : k \in BoundKeys}
<1>1. Uses(m, b) = A \union (B \ {Unbound})
  BY DEF Uses
<1>2. v \in A <=> \E x \in Accounts : v \in m[x]
  OBVIOUS
<1>3. v \in B <=> \E k \in BoundKeys : b[k] = v
  OBVIOUS
<1> HIDE DEF A, B
<1> QED
  BY <1>1, <1>2, <1>3, SMT

\* How far a rename has come decides what the keys reach.
LEMMA ReachOfStage ==
    ASSUME NEW c, c.name \in GroupNames, c.to \in GroupNames, c.name # c.to,
           c.before \in Memberships \X Bindings,
           c.to \notin Uses(c.before[1], c.before[2]),
           NEW r \in BOOLEAN, NEW s \in BOOLEAN, AccountsAre(c, r), KeysAre(c, s), s => r
    PROVE  /\ \A k \in BoundKeys :
                 /\ Reach(k, members, bound) \subseteq Reach(k, c.before[1], c.before[2])
                 /\ s => Reach(k, c.before[1], c.before[2]) \ c.late
                            \subseteq Reach(k, members, bound)
                 /\ s => bound[k] # c.name
           /\ s => \A x \in Accounts \ c.late : c.name \notin members[x]
<1> DEFINE m == c.before[1]
           b == c.before[2]
<1>1. m \in Memberships /\ b \in Bindings /\ c.to \notin Uses(m, b)
  OBVIOUS
<1>2. c.name # Unbound /\ c.to # Unbound
  BY MembersAssumption
<1>3. \A x \in Accounts :
         \/ members[x] = IF r THEN Renamed(m[x], c.name, c.to) ELSE m[x]
         \/ r /\ x \in c.late /\ members[x] = m[x]
  BY DEF AccountsAre, Right
<1>4. \A l \in BoundKeys : bound[l] = IF s /\ b[l] = c.name THEN c.to ELSE b[l]
  BY DEF KeysAre
<1> HIDE DEF m, b
<1>5. \A x \in Accounts : c.to \notin m[x]
  BY <1>1, InUses
<1>6. \A l \in BoundKeys : b[l] # c.to
  BY <1>1, <1>2, InUses
<1>7. ASSUME NEW k \in BoundKeys
      PROVE  Reach(k, members, bound) \subseteq Reach(k, m, b)
  <2>1. bound[k] = Unbound <=> b[k] = Unbound
    BY <1>2, <1>4
  <2>2. \A x \in Accounts : bound[k] \in members[x] => b[k] \in m[x]
    BY <1>3, <1>4, <1>5, <1>6 DEF Renamed
  <2> QED
    BY <2>1, <2>2 DEF Reach
<1>8. ASSUME s, NEW k \in BoundKeys
      PROVE  Reach(k, m, b) \ c.late \subseteq Reach(k, members, bound)
  <2>1. bound[k] = Unbound <=> b[k] = Unbound
    BY <1>2, <1>4
  <2>2. \A x \in Accounts \ c.late : b[k] \in m[x] => bound[k] \in members[x]
    BY <1>3, <1>4, <1>8 DEF Renamed
  <2> QED
    BY <2>1, <2>2 DEF Reach
<1>9. ASSUME s
      PROVE  /\ \A l \in BoundKeys : bound[l] # c.name
             /\ \A x \in Accounts \ c.late : c.name \notin members[x]
  <2>1. \A x \in Accounts \ c.late : members[x] = Renamed(m[x], c.name, c.to)
    BY <1>3, <1>9
  <2>2. \A x \in Accounts \ c.late : c.name \notin members[x]
    BY <2>1 DEF Renamed
  <2> QED
    BY <1>4, <1>9, <2>2
<1> QED
  BY <1>7, <1>8, <1>9 DEF m, b

\* For any groups, accounts, keys, calls and refreshes: a rename that no other call
\* disturbs never lets a key reach an account it did not reach before, and when it
\* succeeds every key reaches what it reached, but for the accounts whose token was
\* being refreshed when the rename got to them.
THEOREM RenameAlwaysKeepsIsolation == GroupsSpec => []RenameKeepsIsolation
<1>1. ASSUME GroupsInv
      PROVE  RenameKeepsIsolation
  <2> SUFFICES ASSUME NEW a \in Admins, NEW c, c = call[a], c.op = "rename", c.alone,
                      c.to \notin Uses(c.before[1], c.before[2])
               PROVE  /\ \A k \in BoundKeys : Reach(k, members, bound)
                              \subseteq Reach(k, c.before[1], c.before[2])
                      /\ At(a, "idle") =>
                           /\ \A k \in BoundKeys : Reach(k, c.before[1], c.before[2]) \ c.late
                                 \subseteq Reach(k, members, bound)
                           /\ \A k \in BoundKeys : bound[k] # c.name
                           /\ \A x \in Accounts \ c.late :
                                 /\ c.name \notin members[x]
                                 /\ c.before[1][x] # members[x] => membersFile[x] = members[x]
    BY DEF RenameKeepsIsolation
  <2>1. /\ c.name \in GroupNames /\ c.to \in GroupNames /\ c.name # c.to
        /\ c.before \in Memberships \X Bindings
        /\ Stage(c, c.at)
    BY <1>1, Renaming
  <2>2. \/ AccountsAre(c, FALSE) /\ KeysAre(c, FALSE) /\ c.at # "idle"
        \/ AccountsAre(c, TRUE) /\ KeysAre(c, FALSE) /\ c.at # "idle"
        \/ AccountsAre(c, TRUE) /\ KeysAre(c, TRUE)
    BY <2>1 DEF Stage
  <2>3. PICK r \in BOOLEAN, s \in BOOLEAN :
           AccountsAre(c, r) /\ KeysAre(c, s) /\ (s => r) /\ (c.at = "idle" => s)
    BY <2>2, Zenon
  <2>4. /\ \A k \in BoundKeys :
              /\ Reach(k, members, bound) \subseteq Reach(k, c.before[1], c.before[2])
              /\ s => Reach(k, c.before[1], c.before[2]) \ c.late
                         \subseteq Reach(k, members, bound)
              /\ s => bound[k] # c.name
        /\ s => \A x \in Accounts \ c.late : c.name \notin members[x]
    BY <2>1, <2>3, ReachOfStage
  <2>5. At(a, "idle") => s /\ AccountsSaved(c)
    BY <2>1, <2>3 DEF At, Stage
  <2> QED
    BY <2>4, <2>5 DEF AccountsSaved
<1> QED
  BY <1>1, GroupsStart, GroupsStep, PTL DEF GroupsSpec

-----------------------------------------------------------------------------
(* The proxy pool.                                                           *)

Entries ==
    [url : Urls, enabled : BOOLEAN, health : {"unknown", "healthy", "unhealthy"},
     failures : Nat, auto : BOOLEAN]

\* A pool: its ids have been given, and what is enabled may be.
IsPool(pool) ==
    /\ pool = [i \in DOMAIN pool |-> pool[i]]
    /\ DOMAIN pool \subseteq 1..(nextProxy - 1)
    /\ \A i \in DOMAIN pool :
          /\ pool[i] \in Entries
          /\ pool[i].enabled => pool[i].failures < MaxProbeFailures /\ ~pool[i].auto

\* The pool and its file are pools; no failure is charged that was not seen.
PoolInv ==
    /\ nextProxy \in Nat \ {0} /\ saves \in Nat
    /\ IsPool(proxies) /\ (proxyFile.whole => IsPool(proxyFile.pool))
    /\ proxyFile = [whole |-> proxyFile.whole, pool |-> proxyFile.pool]
    /\ DOMAIN proxies \subseteq DOMAIN evidence
    /\ \A i \in DOMAIN proxies : evidence[i] \in Nat /\ proxies[i].failures <= evidence[i]

\* What a check probes has been in the pool, and is still what has its id.
CheckStates == [at : {"idle", "probing", "saving"}, one : BOOLEAN,
                targets : SUBSET [id : Nat, url : Urls]]

ChecksInv ==
    /\ checks \in [Checks -> CheckStates]
    /\ \A c \in Checks : \A t \in checks[c].targets :
          /\ t.id < nextProxy
          /\ t.id \in DOMAIN proxies => proxies[t.id].url = t.url

ProxiesInv == PoolInv /\ ChecksInv /\ PoolFileFollows

\* A step that leaves the pool, the counter and the evidence alone.
LEMMA PoolStays ==
    ASSUME ProxiesInv, UNCHANGED <<proxies, nextProxy, evidence>>, saves' \in Nat,
           \/ UNCHANGED proxyFile
           \/ proxyFile' = [whole |-> TRUE, pool |-> proxies]
    PROVE  PoolInv'
<1>1. CASE UNCHANGED proxyFile
  BY <1>1 DEF ProxiesInv, PoolInv, IsPool
<1>2. CASE proxyFile' = [whole |-> TRUE, pool |-> proxies]
  <2>1. /\ IsPool(proxies) /\ nextProxy \in Nat \ {0}
        /\ DOMAIN proxies \subseteq DOMAIN evidence
        /\ \A i \in DOMAIN proxies : evidence[i] \in Nat /\ proxies[i].failures <= evidence[i]
    BY DEF ProxiesInv, PoolInv
  <2>2. proxyFile'.pool = proxies /\ proxyFile'.whole = TRUE
    BY <1>2
  <2>3. proxyFile' = [whole |-> proxyFile'.whole, pool |-> proxyFile'.pool]
    BY <1>2, <2>2
  <2>4. IsPool(proxies)'
    BY <2>1 DEF IsPool
  <2>5. IsPool(proxyFile.pool)'
    BY <2>1, <2>2 DEF IsPool
  <2> QED
    BY <2>1, <2>3, <2>4, <2>5 DEF PoolInv
<1> QED
  BY <1>1, <1>2

\* A step that leaves the checks, and the pool they probe, alone.
LEMMA ChecksStay ==
    ASSUME ProxiesInv, UNCHANGED <<proxies, nextProxy, checks>>
    PROVE  ChecksInv'
BY DEF ProxiesInv, ChecksInv

\* A change of the pool that leaves the file, and has still to be saved.
LEMMA PoolChanges ==
    ASSUME ProxiesInv, nextProxy' \in Nat, nextProxy <= nextProxy', IsPool(proxies)',
           UNCHANGED proxyFile, saves' \in Nat,
           DOMAIN proxies' \subseteq DOMAIN evidence',
           \A i \in DOMAIN proxies' : evidence'[i] \in Nat /\ proxies'[i].failures <= evidence'[i]
    PROVE  PoolInv'
<1>1. nextProxy \in Nat \ {0}
  BY DEF ProxiesInv, PoolInv
<1>2. proxyFile'.whole => IsPool(proxyFile.pool)'
  <2>1. proxyFile.whole => IsPool(proxyFile.pool)
    BY DEF ProxiesInv, PoolInv
  <2>2. 1..(nextProxy - 1) \subseteq 1..(nextProxy' - 1)
    <3>1. \A m, n \in Nat : m <= n => 1..(m - 1) \subseteq 1..(n - 1)
      OBVIOUS
    <3> QED
      BY <1>1, <3>1
  <2> QED
    BY <2>1, <2>2 DEF IsPool
<1>3. proxyFile' = [whole |-> proxyFile'.whole, pool |-> proxyFile'.pool]
  BY DEF ProxiesInv, PoolInv
<1> QED
  BY <1>1, <1>2, <1>3 DEF PoolInv

\* New proxies get identifiers no check has seen.
LEMMA AddProxiesStep ==
    ASSUME ProxiesInv, NEW us \in SUBSET Urls, AddProxies(us)
    PROVE  ProxiesInv'
<1> DEFINE new == us \ {proxies[i].url : i \in DOMAIN proxies}
           n == Cardinality(new)
           ids == nextProxy .. (nextProxy + n - 1)
<1>1. n \in Nat /\ new \in SUBSET Urls /\ (new = {} => n = 0)
  BY PoolAssumption, FS_Subset, FS_CardinalityType, FS_EmptySet
<1>2. PICK order \in [1..n -> new] :
         proxies' = [i \in DOMAIN proxies \union ids |->
                        IF i \in ids THEN NewProxy(order[i - nextProxy + 1]) ELSE proxies[i]]
  BY DEF AddProxies, AddFrom, SetToSeqs
<1>3. /\ nextProxy' = nextProxy + n
      /\ evidence' = [i \in DOMAIN evidence \union ids |->
                         IF i \in ids THEN 0 ELSE evidence[i]]
      /\ saves' = saves + (IF new = {} THEN 0 ELSE 1)
      /\ UNCHANGED <<proxyFile, unsaved, checks>>
  BY DEF AddProxies, AddFrom
<1>4. /\ nextProxy \in Nat \ {0} /\ saves \in Nat /\ IsPool(proxies)
      /\ DOMAIN proxies \subseteq DOMAIN evidence
      /\ \A i \in DOMAIN proxies : evidence[i] \in Nat /\ proxies[i].failures <= evidence[i]
  BY DEF ProxiesInv, PoolInv
<1> HIDE DEF new, n
<1>5. \A i \in ids : order[i - nextProxy + 1] \in Urls
  <2>1. \A i \in ids : i - nextProxy + 1 \in 1..n
    BY <1>1, <1>4
  <2> QED
    BY <1>1, <2>1
<1>6. DOMAIN proxies \intersect ids = {}
  BY <1>1, <1>4 DEF IsPool
<1>7. /\ DOMAIN proxies' = DOMAIN proxies \union ids
      /\ \A i \in DOMAIN proxies : proxies'[i] = proxies[i]
      /\ \A i \in ids : proxies'[i] = NewProxy(order[i - nextProxy + 1])
  BY <1>2, <1>6
<1>12. \A i \in ids : /\ proxies'[i] \in Entries /\ proxies'[i].failures = 0
                      /\ ~proxies'[i].auto
  <2>1. \A u \in Urls : /\ NewProxy(u) \in Entries /\ NewProxy(u).failures = 0
                        /\ ~NewProxy(u).auto
    BY DEF NewProxy, Entries
  <2> QED
    BY <1>5, <1>7, <2>1
<1>8. IsPool(proxies)'
  <2>2. DOMAIN proxies' \subseteq 1..(nextProxy' - 1)
    BY <1>1, <1>3, <1>4, <1>7 DEF IsPool
  <2>3. \A i \in DOMAIN proxies' :
          /\ proxies'[i] \in Entries
          /\ proxies'[i].enabled => proxies'[i].failures < MaxProbeFailures /\ ~proxies'[i].auto
    BY <1>4, <1>7, <1>12, PoolAssumption DEF IsPool
  <2>4. proxies' = [i \in DOMAIN proxies' |-> proxies'[i]]
    BY <1>2
  <2> QED
    BY <2>2, <2>3, <2>4 DEF IsPool
<1>9. PoolInv'
  <2>1. /\ DOMAIN proxies' \subseteq DOMAIN evidence'
        /\ \A i \in DOMAIN proxies' : evidence'[i] \in Nat /\ proxies'[i].failures <= evidence'[i]
    <3> HIDE DEF ids
    <3>1. /\ DOMAIN evidence' = DOMAIN evidence \union ids
          /\ \A i \in ids : evidence'[i] = 0
          /\ \A i \in DOMAIN proxies : evidence'[i] = evidence[i]
      BY <1>3, <1>4, <1>6
    <3> QED
      BY <1>4, <1>7, <1>12, <3>1
  <2>2. nextProxy' \in Nat /\ nextProxy <= nextProxy' /\ saves' \in Nat
    BY <1>1, <1>3, <1>4
  <2> QED
    BY <1>3, <1>8, <2>1, <2>2, PoolChanges
<1>10. ChecksInv'
  <2>1. \A c \in Checks : \A t \in checks[c].targets : t.id \in Nat
    BY DEF ProxiesInv, ChecksInv, CheckStates
  <2>2. \A i \in ids : i >= nextProxy
    BY <1>1, <1>4
  <2> QED
    BY <1>1, <1>3, <1>4, <1>7, <2>1, <2>2 DEF ProxiesInv, ChecksInv
<1>11. PoolFileFollows'
  <2>1. CASE new = {}
    <3>1. ids = {} /\ saves' = saves
      BY <1>1, <1>3, <1>4, <2>1
    <3>2. proxies' = proxies
      BY <1>2, <1>4, <3>1 DEF IsPool
    <3> QED
      BY <1>3, <3>1, <3>2 DEF ProxiesInv, PoolFileFollows
  <2>2. CASE new # {}
    BY <1>3, <1>4, <2>2 DEF PoolFileFollows
  <2> QED
    BY <2>1, <2>2
<1> QED
  BY <1>9, <1>10, <1>11 DEF ProxiesInv

\* A proxy that is deleted: a check that probes it finds no entry.
LEMMA DeleteProxyStep ==
    ASSUME ProxiesInv, NEW id \in DOMAIN proxies, DeleteProxy(id)
    PROVE  ProxiesInv'
<1>1. /\ proxies' = [i \in DOMAIN proxies \ {id} |-> proxies[i]]
      /\ saves' = saves + 1
      /\ UNCHANGED <<nextProxy, proxyFile, checks, evidence>>
  BY DEF DeleteProxy, Restrict
<1>2. /\ nextProxy \in Nat \ {0} /\ saves \in Nat /\ IsPool(proxies)
      /\ DOMAIN proxies \subseteq DOMAIN evidence
      /\ \A i \in DOMAIN proxies : evidence[i] \in Nat /\ proxies[i].failures <= evidence[i]
  BY DEF ProxiesInv, PoolInv
<1>3. IsPool(proxies)'
  BY <1>1, <1>2 DEF IsPool
<1>4. PoolInv'
  BY <1>1, <1>2, <1>3, PoolChanges
<1>5. ChecksInv'
  BY <1>1 DEF ProxiesInv, ChecksInv
<1>6. PoolFileFollows'
  BY <1>1, <1>2 DEF PoolFileFollows
<1> QED
  BY <1>4, <1>5, <1>6 DEF ProxiesInv

\* A proxy that is enabled starts without failures.
LEMMA SwitchStep ==
    ASSUME ProxiesInv, NEW id \in DOMAIN proxies, NEW on \in BOOLEAN, SetProxyEnabled(id, on)
    PROVE  ProxiesInv'
<1>1. /\ proxies' = [proxies EXCEPT ![id] =
                        IF on THEN [@ EXCEPT !.enabled = TRUE, !.auto = FALSE, !.failures = 0]
                        ELSE [@ EXCEPT !.enabled = FALSE]]
      /\ evidence' = IF on THEN [evidence EXCEPT ![id] = 0] ELSE evidence
      /\ saves' = saves + 1
      /\ UNCHANGED <<nextProxy, proxyFile, checks>>
  BY DEF SetProxyEnabled
<1>2. /\ nextProxy \in Nat \ {0} /\ saves \in Nat /\ IsPool(proxies)
      /\ DOMAIN proxies \subseteq DOMAIN evidence
      /\ \A i \in DOMAIN proxies : evidence[i] \in Nat /\ proxies[i].failures <= evidence[i]
  BY DEF ProxiesInv, PoolInv
<1>3. /\ proxies'[id] \in Entries /\ proxies'[id].url = proxies[id].url
      /\ on => proxies'[id].failures = 0 /\ ~proxies'[id].auto
      /\ ~on => ~proxies'[id].enabled /\ proxies'[id].failures = proxies[id].failures
  <2> DEFINE e == proxies[id]
             r == [e EXCEPT !.enabled = TRUE, !.auto = FALSE, !.failures = 0]
             s == [e EXCEPT !.enabled = FALSE]
  <2>1. e \in Entries
    BY <1>2 DEF IsPool
  <2>2. r \in Entries /\ r.url = e.url /\ r.failures = 0 /\ ~r.auto
    BY <2>1 DEF Entries
  <2>3. s \in Entries /\ s.url = e.url /\ ~s.enabled /\ s.failures = e.failures
    BY <2>1 DEF Entries
  <2>4. proxies'[id] = IF on THEN r ELSE s
    BY <1>1
  <2> HIDE DEF r, s
  <2> QED
    BY <2>2, <2>3, <2>4
<1>4. /\ DOMAIN proxies' = DOMAIN proxies
      /\ \A i \in DOMAIN proxies \ {id} : proxies'[i] = proxies[i]
      /\ proxies' = [i \in DOMAIN proxies' |-> proxies'[i]]
  BY <1>1, <1>2 DEF IsPool
<1>5. IsPool(proxies)'
  BY <1>1, <1>2, <1>3, <1>4, PoolAssumption DEF IsPool
<1>6. /\ DOMAIN proxies' \subseteq DOMAIN evidence'
      /\ \A i \in DOMAIN proxies' : evidence'[i] \in Nat /\ proxies'[i].failures <= evidence'[i]
  BY <1>1, <1>2, <1>3, <1>4
<1>7. PoolInv'
  BY <1>1, <1>2, <1>5, <1>6, PoolChanges
<1>8. ChecksInv'
  BY <1>1, <1>3, <1>4 DEF ProxiesInv, ChecksInv
<1>9. PoolFileFollows'
  BY <1>1, <1>2 DEF PoolFileFollows
<1> QED
  BY <1>7, <1>8, <1>9 DEF ProxiesInv

\* A check takes the proxies it will probe.
LEMMA StartCheckStep ==
    ASSUME ProxiesInv, NEW c \in Checks, NEW ids, ids \subseteq DOMAIN proxies,
           NEW one \in BOOLEAN, StartCheck(c, ids, one)
    PROVE  ProxiesInv'
<1> DEFINE q == [at |-> "probing", one |-> one, targets |-> {Target(i) : i \in ids}]
<1>1. /\ checks' = [checks EXCEPT ![c] = q]
      /\ UNCHANGED <<proxies, nextProxy, proxyFile, saves, unsaved, evidence>>
  BY DEF StartCheck
<1>2. IsPool(proxies) /\ nextProxy \in Nat \ {0} /\ saves \in Nat
  BY DEF ProxiesInv, PoolInv
<1>3. \A i \in DOMAIN proxies :
         /\ Target(i) \in [id : Nat, url : Urls] /\ Target(i).id = i /\ i < nextProxy
         /\ Target(i).url = proxies[i].url
  BY <1>2 DEF IsPool, Entries, Target
<1>4. /\ q \in CheckStates /\ q.at = "probing"
      /\ \A t \in q.targets : \E i \in DOMAIN proxies : t = Target(i)
  BY <1>3 DEF CheckStates
<1> HIDE DEF q
<1>5. checks \in [Checks -> CheckStates]
  BY DEF ProxiesInv, ChecksInv
<1>6. ChecksInv'
  <2>1. /\ checks' \in [Checks -> CheckStates]
        /\ \A d \in Checks : checks'[d] = IF d = c THEN q ELSE checks[d]
    BY <1>1, <1>4, <1>5
  <2> SUFFICES ASSUME NEW d \in Checks, NEW t \in checks'[d].targets
               PROVE  /\ t.id < nextProxy'
                      /\ t.id \in DOMAIN proxies' => proxies'[t.id].url = t.url
    BY <2>1 DEF ChecksInv
  <2>2. CASE d = c
    BY <1>1, <1>3, <1>4, <2>1, <2>2
  <2>3. CASE d # c
    BY <1>1, <2>1, <2>3 DEF ProxiesInv, ChecksInv
  <2> QED
    BY <2>2, <2>3
<1>7. PoolInv'
  BY <1>1, <1>2, PoolStays
<1>8. PoolFileFollows'
  <2>1. \A d \in Checks : checks'[d].at # "saving" => checks[d].at # "saving"
    BY <1>1, <1>5 DEF StartCheck
  <2> QED
    BY <1>1, <2>1 DEF ProxiesInv, PoolFileFollows
<1> QED
  BY <1>6, <1>7, <1>8 DEF ProxiesInv

\* A probe's result is charged to the entry, and to nothing it is not.
LEMMA AppliedOK ==
    ASSUME NEW e \in Entries, NEW ok \in BOOLEAN,
           e.enabled => e.failures < MaxProbeFailures /\ ~e.auto
    PROVE  /\ Applied(e, ok) \in Entries /\ Applied(e, ok).url = e.url
           /\ Applied(e, ok).failures = IF ok THEN 0 ELSE e.failures + 1
           /\ Applied(e, ok).enabled =>
                 Applied(e, ok).failures < MaxProbeFailures /\ ~Applied(e, ok).auto
<1>0. /\ MaxProbeFailures \in Nat \ {0} /\ 0 < MaxProbeFailures
      /\ e.enabled \in BOOLEAN /\ e.auto \in BOOLEAN /\ e.failures \in Nat
  BY PoolAssumption DEF Entries
<1>1. CASE ok
  <2> DEFINE r == [e EXCEPT !.health = "healthy", !.failures = 0]
  <2>1. /\ r \in Entries /\ r.url = e.url /\ r.failures = 0
        /\ r.enabled = e.enabled /\ r.auto = e.auto
    BY DEF Entries
  <2>2. Applied(e, ok) = r
    BY <1>1 DEF Applied
  <2> HIDE DEF r
  <2> QED
    BY <1>0, <1>1, <2>1, <2>2
<1>2. CASE ~ok
  <2>1. PICK off \in BOOLEAN : off = (e.failures + 1 >= MaxProbeFailures /\ e.enabled)
    OBVIOUS
  <2>2. PICK on \in BOOLEAN, auto \in BOOLEAN :
           on = (e.enabled /\ ~off) /\ auto = (e.auto \/ off)
    OBVIOUS
  <2>3. e.failures + 1 \in Nat /\ e.failures \in Nat
    BY DEF Entries
  <2> DEFINE r == [e EXCEPT !.health = "unhealthy", !.failures = e.failures + 1,
                            !.enabled = on, !.auto = auto]
  <2>4. Applied(e, ok) = r
    BY <1>2, <2>1, <2>2 DEF Applied
  <2>5. /\ r \in Entries /\ r.url = e.url /\ r.failures = e.failures + 1
        /\ r.enabled = on /\ r.auto = auto
    BY <2>3 DEF Entries
  <2> HIDE DEF r
  <2>6. ASSUME on
        PROVE  e.failures + 1 < MaxProbeFailures /\ ~auto
    <3>1. e.enabled /\ ~off /\ ~e.auto
      BY <2>2, <2>6
    <3>2. ~(e.failures + 1 >= MaxProbeFailures)
      BY <2>1, <3>1
    <3> QED
      BY <1>0, <2>2, <3>1, <3>2
  <2> QED
    BY <1>2, <2>4, <2>5, <2>6
<1> QED
  BY <1>1, <1>2

\* Results land on the proxies that were probed, whatever has come in between.
LEMMA ResultsStep ==
    ASSUME ProxiesInv, NEW c \in Checks, Results(c)
    PROVE  ProxiesInv'
<1> DEFINE hit(i) == {t \in checks[c].targets : t.id = i}
           there  == {i \in DOMAIN proxies : hit(i) # {}}
<1>1. PICK up \in SUBSET {t \in checks[c].targets : t.url \notin Dead} :
         /\ proxies' = [i \in DOMAIN proxies |->
                  IF i \in there THEN Applied(proxies[i], hit(i) \subseteq up) ELSE proxies[i]]
         /\ evidence' = [i \in DOMAIN evidence |->
                  IF i \notin there THEN evidence[i]
                  ELSE IF hit(i) \subseteq up THEN 0
                  ELSE IF Target(i) \in hit(i) THEN evidence[i] + 1 ELSE evidence[i]]
  BY DEF Results
<1>2. /\ checks' = [checks EXCEPT ![c] =
                       IF checks[c].one /\ there = {} THEN NoCheck
                       ELSE [NoCheck EXCEPT !.at = "saving"]]
      /\ UNCHANGED <<nextProxy, proxyFile, saves, unsaved>>
  BY DEF Results
<1>3. /\ nextProxy \in Nat \ {0} /\ saves \in Nat /\ IsPool(proxies)
      /\ DOMAIN proxies \subseteq DOMAIN evidence
      /\ \A i \in DOMAIN proxies : evidence[i] \in Nat /\ proxies[i].failures <= evidence[i]
  BY DEF ProxiesInv, PoolInv
<1>4. checks \in [Checks -> CheckStates]
  BY DEF ProxiesInv, ChecksInv
<1>5. \A i \in there : Target(i) \in hit(i)
  <2> SUFFICES ASSUME NEW i \in there
               PROVE  Target(i) \in hit(i)
    OBVIOUS
  <2>1. PICK t \in checks[c].targets : t.id = i
    OBVIOUS
  <2>2. t \in [id : Nat, url : Urls] /\ i \in DOMAIN proxies
    BY <1>4, <2>1 DEF CheckStates
  <2>3. proxies[i].url = t.url
    BY <2>1, <2>2 DEF ProxiesInv, ChecksInv
  <2>4. t = Target(i)
    BY <2>1, <2>2, <2>3 DEF Target
  <2> QED
    BY <2>1, <2>4
<1>6. \A i \in DOMAIN proxies : (hit(i) \subseteq up) \in BOOLEAN
  OBVIOUS
<1>7. /\ there \subseteq DOMAIN proxies /\ DOMAIN proxies' = DOMAIN proxies
      /\ proxies' = [i \in DOMAIN proxies' |-> proxies'[i]]
      /\ there = {} => proxies' = proxies
  BY <1>1, <1>3 DEF IsPool
<1>8. \A i \in DOMAIN proxies :
         /\ proxies'[i] \in Entries /\ proxies'[i].url = proxies[i].url
         /\ proxies'[i].enabled => proxies'[i].failures < MaxProbeFailures /\ ~proxies'[i].auto
         /\ evidence'[i] \in Nat /\ proxies'[i].failures <= evidence'[i]
  <2> SUFFICES ASSUME NEW i \in DOMAIN proxies
               PROVE  /\ proxies'[i] \in Entries /\ proxies'[i].url = proxies[i].url
                      /\ proxies'[i].enabled =>
                            proxies'[i].failures < MaxProbeFailures /\ ~proxies'[i].auto
                      /\ evidence'[i] \in Nat /\ proxies'[i].failures <= evidence'[i]
    OBVIOUS
  <2>1. /\ proxies[i] \in Entries /\ evidence[i] \in Nat /\ proxies[i].failures <= evidence[i]
        /\ proxies[i].enabled => proxies[i].failures < MaxProbeFailures /\ ~proxies[i].auto
        /\ proxies[i].failures \in Nat
    BY <1>3 DEF IsPool, Entries
  <2>2. CASE i \notin there
    <3>1. proxies'[i] = proxies[i] /\ evidence'[i] = evidence[i]
      BY <1>1, <1>3, <2>2
    <3> QED
      BY <2>1, <3>1
  <2>3. CASE i \in there
    <3>1. PICK ok \in BOOLEAN : ok = (hit(i) \subseteq up)
      OBVIOUS
    <3>2. /\ proxies'[i] = Applied(proxies[i], ok)
          /\ evidence'[i] = IF ok THEN 0 ELSE evidence[i] + 1
      BY <1>1, <1>3, <1>5, <2>3, <3>1
    <3> HIDE DEF hit, there
    <3> QED
      BY <2>1, <3>2, AppliedOK
  <2> QED
    BY <2>2, <2>3
<1>9. PoolInv'
  <2>1. IsPool(proxies)'
    BY <1>2, <1>3, <1>7, <1>8 DEF IsPool
  <2>2. DOMAIN proxies' \subseteq DOMAIN evidence'
    BY <1>1, <1>3, <1>7
  <2> QED
    BY <1>2, <1>3, <1>7, <1>8, <2>1, <2>2, PoolChanges
<1>10. \E q \in CheckStates :
          /\ checks' = [checks EXCEPT ![c] = q] /\ q.targets = {}
          /\ q.at # "saving" => there = {}
  <2>1. NoCheck \in CheckStates /\ NoCheck.targets = {}
    BY DEF NoCheck, CheckStates
  <2>2. PICK q : q = [NoCheck EXCEPT !.at = "saving"]
    OBVIOUS
  <2>3. q \in CheckStates /\ q.targets = {} /\ q.at = "saving"
    BY <2>2 DEF NoCheck, CheckStates
  <2> HIDE DEF hit, there
  <2> QED
    BY <1>2, <2>1, <2>2, <2>3
<1>11. PICK q \in CheckStates :
          /\ checks' = [checks EXCEPT ![c] = q] /\ q.targets = {}
          /\ q.at # "saving" => there = {}
  BY <1>10
<1> HIDE DEF hit, there
<1>12. /\ checks' \in [Checks -> CheckStates]
       /\ \A d \in Checks : checks'[d] = IF d = c THEN q ELSE checks[d]
  BY <1>4, <1>11
<1>13. ChecksInv'
  BY <1>2, <1>7, <1>8, <1>11, <1>12 DEF ProxiesInv, ChecksInv
<1>14. PoolFileFollows'
  <2>1. checks[c].at # "saving"
    BY DEF Results
  <2>2. ASSUME \A d \in Checks : checks'[d].at # "saving"
        PROVE  proxies' = proxies /\ \A d \in Checks : checks[d].at # "saving"
    BY <1>7, <1>11, <1>12, <2>1, <2>2
  <2> QED
    BY <1>2, <2>2 DEF ProxiesInv, PoolFileFollows
<1> QED
  BY <1>9, <1>13, <1>14 DEF ProxiesInv

\* A write that gets through leaves the pool in the file.
LEMMA SavePoolStep ==
    ASSUME ProxiesInv, Save \/ \E c \in Checks : SaveResults(c)
    PROVE  ProxiesInv'
<1>1. /\ UNCHANGED <<proxies, nextProxy, evidence>>
      /\ \/ proxyFile' = [whole |-> TRUE, pool |-> proxies]
         \/ unsaved' = TRUE /\ UNCHANGED proxyFile
  BY DEF Save, SaveResults, WritePool
<1>2. saves' \in Nat
  BY DEF Save, SaveResults, ProxiesInv, PoolInv
<1>3. PoolInv'
  BY <1>1, <1>2, PoolStays
<1>4. PoolFileFollows'
  BY <1>1 DEF PoolFileFollows
<1>5. ChecksInv'
  <2>1. CASE Save
    BY <1>1, <2>1, ChecksStay DEF Save
  <2>2. ASSUME NEW c \in Checks, SaveResults(c)
        PROVE  ChecksInv'
    <3>1. NoCheck \in CheckStates /\ NoCheck.targets = {}
      BY DEF NoCheck, CheckStates
    <3>2. checks' = [checks EXCEPT ![c] = NoCheck] /\ checks \in [Checks -> CheckStates]
      BY <2>2 DEF SaveResults, ProxiesInv, ChecksInv
    <3>3. /\ checks' \in [Checks -> CheckStates]
          /\ \A d \in Checks : checks'[d] = IF d = c THEN NoCheck ELSE checks[d]
      BY <3>1, <3>2
    <3> QED
      BY <1>1, <3>1, <3>3 DEF ProxiesInv, ChecksInv
  <2> QED
    BY <2>1, <2>2
<1> QED
  BY <1>3, <1>4, <1>5 DEF ProxiesInv

\* After a restart the pool is its file, or empty when that was torn.
LEMMA RestartPoolStep ==
    ASSUME ProxiesInv, RestartProxies
    PROVE  ProxiesInv'
<1>10. PICK torn \in BOOLEAN :
         LET pool == IF proxyFile.whole /\ ~torn THEN proxyFile.pool ELSE <<>>
         IN  /\ proxies' = pool
             /\ nextProxy' = FirstFree(pool)
             /\ evidence' = [i \in DOMAIN pool |-> pool[i].failures]
             /\ proxyFile' = [proxyFile EXCEPT !.whole = @ /\ ~torn]
  BY DEF RestartProxies
<1>1. PICK pool :
         /\ pool = IF proxyFile.whole /\ ~torn THEN proxyFile.pool ELSE <<>>
         /\ proxies' = pool /\ nextProxy' = FirstFree(pool)
         /\ evidence' = [i \in DOMAIN pool |-> pool[i].failures]
         /\ proxyFile' = [proxyFile EXCEPT !.whole = @ /\ ~torn]
  BY <1>10
<1>2. saves' = 0 /\ unsaved' = TRUE /\ checks' = [c \in Checks |-> NoCheck]
  BY DEF RestartProxies
<1>3. /\ nextProxy \in Nat \ {0} /\ (proxyFile.whole => IsPool(proxyFile.pool))
      /\ proxyFile = [whole |-> proxyFile.whole, pool |-> proxyFile.pool]
  BY DEF ProxiesInv, PoolInv
<1>4. IsPool(pool)
  <2>1. IsPool(<<>>)
    <3>1. DOMAIN <<>> = {} /\ <<>> = [i \in DOMAIN <<>> |-> <<>>[i]]
      OBVIOUS
    <3> QED
      BY <3>1 DEF IsPool
  <2> QED
    BY <1>1, <1>3, <2>1
<1>5. nextProxy' \in Nat \ {0} /\ DOMAIN pool \subseteq 1..(nextProxy' - 1)
  <2> DEFINE S == DOMAIN pool \union {0}
  <2>1. \A i \in DOMAIN pool : i \in 1..(nextProxy - 1)
    BY <1>4 DEF IsPool
  <2>2. \E m \in S : \A i \in S : m >= i
    <3>1. CASE DOMAIN pool = {}
      BY <3>1
    <3>2. CASE DOMAIN pool # {}
      <4>1. nextProxy - 1 \in Nat
        BY <1>3
      <4>2. PICK m \in DOMAIN pool : \A i \in DOMAIN pool : i <= m
        BY <2>1, <3>2, <4>1, Largest
      <4>3. \A i \in S : m >= i
        BY <2>1, <4>2
      <4> QED
        BY <4>3
    <3> QED
      BY <3>1, <3>2
  <2>3. Max(S) \in S /\ \A i \in S : Max(S) >= i
    BY <2>2 DEF Max
  <2>4. nextProxy' = 1 + Max(S)
    BY <1>1 DEF FirstFree
  <2>5. \A i \in S : i \in Nat
    BY <2>1
  <2>6. PICK m \in Nat : nextProxy' = 1 + m /\ \A i \in S : m >= i
    BY <2>3, <2>4, <2>5
  <2>7. ASSUME NEW i \in DOMAIN pool
        PROVE  i \in 1..(nextProxy' - 1)
    BY <2>1, <2>6
  <2> QED
    BY <2>6, <2>7
<1>6. IsPool(proxies)'
  BY <1>1, <1>4, <1>5 DEF IsPool
<1>7. PoolInv'
  <2>1. /\ proxyFile' = [whole |-> proxyFile'.whole, pool |-> proxyFile'.pool]
        /\ proxyFile'.whole => proxyFile'.pool = pool
    <3>1. PICK whole \in BOOLEAN : whole = (proxyFile.whole /\ ~torn)
      OBVIOUS
    <3>2. proxyFile' = [whole |-> whole, pool |-> proxyFile.pool]
      BY <1>1, <1>3, <3>1
    <3> QED
      BY <1>1, <3>1, <3>2
  <2>2. proxyFile'.whole => IsPool(proxyFile.pool)'
    BY <1>1, <1>6, <2>1 DEF IsPool
  <2>3. \A i \in DOMAIN proxies' : evidence'[i] \in Nat /\ proxies'[i].failures <= evidence'[i]
    BY <1>1, <1>4 DEF IsPool, Entries
  <2> QED
    BY <1>1, <1>2, <1>5, <1>6, <2>1, <2>2, <2>3 DEF PoolInv
<1>8. ChecksInv'
  <2>1. NoCheck \in CheckStates /\ NoCheck.targets = {}
    BY DEF NoCheck, CheckStates
  <2> QED
    BY <1>2, <2>1 DEF ChecksInv
<1>9. PoolFileFollows'
  BY <1>2 DEF PoolFileFollows
<1> QED
  BY <1>7, <1>8, <1>9 DEF ProxiesInv

\* Every step of the proxy pool preserves the invariant.
LEMMA ProxiesStep == ProxiesInv /\ [ProxyNext]_proxyVars => ProxiesInv'
<1> SUFFICES ASSUME ProxiesInv, [ProxyNext]_proxyVars
             PROVE  ProxiesInv'
  OBVIOUS
<1>1. ASSUME NEW us \in SUBSET Urls \ {{}}, AddProxies(us)
      PROVE  ProxiesInv'
  BY <1>1, AddProxiesStep
<1>2. ASSUME NEW id \in DOMAIN proxies,
             \/ DeleteProxy(id) \/ \E on \in BOOLEAN : SetProxyEnabled(id, on)
      PROVE  ProxiesInv'
  BY <1>2, DeleteProxyStep, SwitchStep
<1>3. ASSUME NEW id \in DOMAIN proxies, NEW c \in Checks, CheckOne(c, id)
      PROVE  ProxiesInv'
  BY <1>3, StartCheckStep DEF CheckOne
<1>4. ASSUME NEW c \in Checks, CheckAll(c) \/ Results(c) \/ SaveResults(c)
      PROVE  ProxiesInv'
  <2>1. Enabled \subseteq DOMAIN proxies
    BY DEF Enabled
  <2> QED
    BY <1>4, <2>1, StartCheckStep, ResultsStep, SavePoolStep DEF CheckAll
<1>5. CASE ReadUrls \/ AssignNext \/ UNCHANGED proxyVars
  <2>1. UNCHANGED <<proxies, nextProxy, proxyFile, saves, unsaved, checks, evidence>>
    BY <1>5 DEF ReadUrls, AssignNext, proxyVars
  <2>2. PoolInv' /\ ChecksInv'
    BY <2>1, PoolStays, ChecksStay DEF ProxiesInv, PoolInv
  <2> QED
    BY <2>1, <2>2 DEF ProxiesInv, PoolFileFollows
<1>6. CASE Save \/ RestartProxies
  BY <1>6, SavePoolStep, RestartPoolStep
<1> QED
  BY <1>1, <1>2, <1>3, <1>4, <1>5, <1>6 DEF ProxyNext

\* The invariant holds at the start.
LEMMA ProxiesStart == ProxyInit => ProxiesInv
<1> SUFFICES ASSUME ProxyInit
             PROVE  ProxiesInv
  OBVIOUS
<1>1. PICK url \in Urls : proxies = <<NewProxy(url)>>
  BY DEF ProxyInit
<1>2. /\ NewProxy(url) \in Entries /\ NewProxy(url).failures = 0 /\ ~NewProxy(url).auto
  BY DEF NewProxy, Entries
<1>3. /\ DOMAIN proxies = {1} /\ proxies[1] = NewProxy(url)
      /\ proxies = [i \in DOMAIN proxies |-> proxies[i]]
  BY <1>1
<1>4. /\ DOMAIN evidence = {1} /\ evidence[1] = 0 /\ nextProxy = 2
      /\ proxyFile = [whole |-> TRUE, pool |-> proxies] /\ saves = 0
      /\ checks = [c \in Checks |-> NoCheck]
  BY DEF ProxyInit
<1>5. IsPool(proxies)
  BY <1>2, <1>3, <1>4, PoolAssumption DEF IsPool
<1>6. PoolInv
  BY <1>2, <1>3, <1>4, <1>5 DEF PoolInv
<1>7. NoCheck \in CheckStates /\ NoCheck.targets = {}
  BY DEF NoCheck, CheckStates
<1>8. ChecksInv
  BY <1>4, <1>7 DEF ChecksInv
<1> QED
  BY <1>4, <1>6, <1>8 DEF ProxiesInv, PoolFileFollows

\* For any proxies, any number of checks and any limit: no proxy is charged with a
\* failure that is not its own, none is enabled that should not be, and the file
\* follows the pool.
THEOREM PoolIsAlwaysTrue == ProxySpec => []PoolIsTrue
<1>1. ProxiesInv => PoolIsTrue
  BY DEF ProxiesInv, PoolInv, IsPool, PoolIsTrue, FailuresAreItsOwn
<1> QED
  BY <1>1, ProxiesStart, ProxiesStep, PTL DEF ProxySpec

=============================================================================
