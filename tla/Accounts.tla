------------------------------ MODULE Accounts ------------------------------
(***************************************************************************)
(* Student accounts (users/): registration, login tokens, profile edits,   *)
(* the password a teacher can read back, its resets and the rotation of    *)
(* the keys it is encrypted under.                                         *)
(*                                                                         *)
(* Requests overlap.  A database transaction is one step unless another    *)
(* one can come in between: the reads a request works on are then a step   *)
(* of their own.  select_for_update is modelled by TeacherLocked and       *)
(* RowLocked, which every write of the row waits for.  There is no         *)
(* ATOMIC_REQUESTS: outside transaction.atomic every statement commits.    *)
(*                                                                         *)
(* Names, usernames, the strength of passwords and the audit records that  *)
(* nothing reads are left out; so is the Django admin, except that it may  *)
(* take the rights of a teacher away.                                      *)
(***************************************************************************)
EXTENDS Staff, Naturals, FiniteSets

CONSTANTS
  Student,      \* primary keys of students, used or not
  Seat,         \* (grade, class_num, student_number)
  SeatGrade,    \* the grade of a seat
  Password,
  Key,          \* STUDENT_PASSWORD_KEY_CONFIG: the ids of the keys
  NewKey,       \* the primary key that rotation goes to
  Worker,       \* requests the web process serves at a time
  RevealLimit,  \* PASSWORD_REVEAL_LIMIT
  Minute,       \* the window of the limit, in ticks
  TokenLife,    \* TOKEN_TTL_HOURS, in ticks
  MaxRequests   \* bound: requests of a behaviour

ASSUME AccountsAssumption ==
  /\ SeatGrade \in [Seat -> Grade] /\ NewKey \in Key
  /\ RevealLimit \in Nat \ {0} /\ Minute \in Nat /\ TokenLife \in Nat \ {0}

VARIABLES
  account,    \* [Student -> Row or None]: users_customuser
  held,       \* history: the seats a student's row has had
  token,      \* [Student -> token or None]: one token for a user
  snapshot,   \* [Student -> seat or None]: the identity in his submissions
  reveals,    \* by teacher: the audited attempts of the last minute to see a password
  staff,      \* the teachers who have their rights
  job,        \* [Worker -> request being served]
  jobs        \* requests so far; the number of a request names its token

accountVars == <<account, held, token, snapshot, reveals, staff, job, jobs>>

Idle == [op |-> "idle"]

\* The password's ciphertext with the key it was made under.
Cipher == [text : Password, under : Key]

Row == [seat : Seat, hash : Password, cipher : Cipher \union {None},
        key : Key \union {None}, status : {"available", "missing_legacy"}]

\* set_student_password: hash, ciphertext, key and status together.
Secured(seat, p, k) ==
  [seat |-> seat, hash |-> p, cipher |-> [text |-> p, under |-> k], key |-> k,
   status |-> "available"]

\* Accounts whose password could not be recovered when encryption came in.
Legacy(seat, p) ==
  [seat |-> seat, hash |-> p, cipher |-> None, key |-> None, status |-> "missing_legacy"]

Decrypt(c, k) == IF c # None /\ c.under = k THEN c.text ELSE None

\* A login token: the request that made it, and its age until it is over.
Session == [key : Nat, age : 0..TokenLife]

ASSUME NoValueAssumption ==
  None \notin Seat /\ None \notin Key /\ None \notin Cipher /\ None \notin Row /\ None \notin Session

Known(id) == account[id] # None
Taken(seat, id) == \E other \in Student \ {id} : Known(other) /\ account[other].seat = seat
Available(id) == Known(id) /\ account[id].status = "available"
ManagesSeat(t, seat) == Manages(t, SeatGrade[seat])

Expired(tok) == tok.age >= TokenLife
Token(n) == [key |-> n, age |-> 0]
ValidToken(id) == token[id] # None /\ ~Expired(token[id])

\* Faulty: rows are read without select_for_update.
NoRowLocked(id) == FALSE

TeacherLocked(t) == \E w \in Worker : job[w].op = "reveal" /\ job[w].by = t
RowLocked(id) == \E w \in Worker : job[w].op = "rotate" /\ id \in DOMAIN job[w].rows

AccountsInit ==
  /\ account \in [Student -> {None} \union {Secured(s, p, k) : s \in Seat, p \in Password, k \in Key \ {NewKey}}
                                    \union {Legacy(s, p) : s \in Seat, p \in Password}]
  /\ \A id \in Student : Known(id) => ~Taken(account[id].seat, id)
  /\ held = [id \in Student |-> IF Known(id) THEN {account[id].seat} ELSE {}]
  /\ token \in [Student -> {None, [key |-> 0, age |-> TokenLife]}]
  /\ \A id \in Student : token[id] # None => Known(id)
  /\ snapshot = [id \in Student |-> None]
  /\ reveals = [t \in Teacher |-> {}]
  /\ staff = Teacher
  /\ job = [w \in Worker |-> Idle]
  /\ jobs = 0

\* A request comes in, and stays with its worker or is over at once.
Begin(w, r) ==
  /\ job[w] = Idle /\ jobs < MaxRequests
  /\ jobs' = jobs + 1
  /\ job' = [job EXCEPT ![w] = r]

Continue(w, r) == job' = [job EXCEPT ![w] = r] /\ UNCHANGED jobs

-----------------------------------------------------------------------------
(* Tokens *)

\* LoginView: the row is found by its seat and the password compared.
Login(w, id, p) ==
  /\ Known(id) /\ account[id].hash = p
  /\ Begin(w, [op |-> "login", id |-> id, n |-> jobs + 1])
  /\ UNCHANGED <<account, held, token, snapshot, reveals, staff>>

\* get_or_create_valid_token reads the user's token: a valid one is the answer.
ReadToken(w) ==
  /\ job[w].op = "login"
  /\ LET id == job[w].id
     IN Continue(w, IF ValidToken(id) THEN Idle
                    ELSE [op |-> "issue", id |-> id, n |-> job[w].n,
                          old |-> IF token[id] = None THEN job[w].n ELSE token[id].key])
  /\ UNCHANGED <<account, held, token, snapshot, reveals, staff>>

\* Faulty: the tokens of the user are deleted.
WithoutAny(tok, key) == None

\* What is left of a user's token once the one with that key is deleted.
Without(tok, key) == IF tok # None /\ tok.key = key THEN None ELSE tok

\* The expired token is deleted and a new one inserted.  The second of two
\* logins is refused by the one-to-one constraint, a login to a deleted
\* account by the foreign key.
IssueToken(w) ==
  /\ job[w].op = "issue"
  /\ LET id == job[w].id
         left == Without(token[id], job[w].old)
     IN token' = [token EXCEPT ![id] = IF left = None /\ Known(id) THEN Token(job[w].n) ELSE left]
  /\ Continue(w, Idle)
  /\ UNCHANGED <<account, held, snapshot, reveals, staff>>

\* A request shows its token, which is expired; or it is valid, and the
\* request is a logout.  Accounts are not deactivated here, which would end
\* their sessions too.
Authenticate(w, id) ==
  /\ token[id] # None
  /\ Begin(w, [op |-> IF Expired(token[id]) THEN "expire" ELSE "logout",
               id |-> id, key |-> token[id].key])
  /\ UNCHANGED <<account, held, token, snapshot, reveals, staff>>

DropToken(w) ==
  /\ job[w].op \in {"expire", "logout"}
  /\ token' = [token EXCEPT ![job[w].id] = Without(@, job[w].key)]
  /\ Continue(w, Idle)
  /\ UNCHANGED <<account, held, snapshot, reveals, staff>>

-----------------------------------------------------------------------------
(* Registration and profiles *)

\* RegisterView looks whether the seat is taken, ...
Register(w, seat, p) ==
  /\ ~\E id \in Student : Known(id) /\ account[id].seat = seat
  /\ Begin(w, [op |-> "register", seat |-> seat, password |-> p, n |-> jobs + 1])
  /\ UNCHANGED <<account, held, token, snapshot, reveals, staff>>

\* The unique constraint on grade, class and number.
UniqueSeat(seat, id) == ~Taken(seat, id)

\* ... and inserts the account and its token in one transaction.
InsertStudent(w, id, k) ==
  /\ job[w].op = "register"
  /\ held[id] = {}
  /\ LET r == job[w]
     IN IF UniqueSeat(r.seat, id)
        THEN /\ account' = [account EXCEPT ![id] = Secured(r.seat, r.password, k)]
             /\ held' = [held EXCEPT ![id] = {r.seat}]
             /\ token' = [token EXCEPT ![id] = Token(r.n)]
        ELSE UNCHANGED <<account, held, token>>
  /\ Continue(w, Idle)
  /\ UNCHANGED <<snapshot, reveals, staff>>

\* UserDetailView.put reads the row without a lock and checks the grades; seat
\* is None in an edit of the name alone.
Put(w, t, id, seat) ==
  /\ t \in staff /\ Known(id) /\ ManagesSeat(t, account[id].seat)
  /\ seat # None => ManagesSeat(t, seat)
  /\ Begin(w, [op |-> "put", id |-> id, row |-> account[id], seat |-> seat])
  /\ UNCHANGED <<account, held, token, snapshot, reveals, staff>>

\* Faulty: the submissions are renamed first.
SaveStudentLast(w) ==
  /\ job[w].op = "put" /\ ~RowLocked(job[w].id)
  /\ LET r == job[w]
         seat == IF r.seat = None THEN r.row.seat ELSE r.seat
     IN /\ snapshot' = [snapshot EXCEPT ![r.id] = IF @ = None THEN None ELSE seat]
        /\ IF UniqueSeat(seat, r.id)
           THEN /\ account' = [account EXCEPT ![r.id] = [r.row EXCEPT !.seat = seat]]
                /\ held' = [held EXCEPT ![r.id] = @ \union {seat}]
           ELSE UNCHANGED <<account, held>>
  /\ Continue(w, Idle)
  /\ UNCHANGED <<token, reveals, staff>>

\* user.save() writes every field as it was read, and inserts the row again if
\* it is gone.  A seat that is taken is refused by full_clean or the constraint.
SaveStudent(w) ==
  /\ job[w].op = "put" /\ ~RowLocked(job[w].id)
  /\ LET r == job[w]
         seat == IF r.seat = None THEN r.row.seat ELSE r.seat
     IN IF UniqueSeat(seat, r.id)
        THEN /\ account' = [account EXCEPT ![r.id] = [r.row EXCEPT !.seat = seat]]
             /\ held' = [held EXCEPT ![r.id] = @ \union {seat}]
             /\ Continue(w, IF r.seat = None THEN Idle
                            ELSE [op |-> "rename", id |-> r.id, seat |-> seat])
        ELSE Continue(w, Idle) /\ UNCHANGED <<account, held>>
  /\ UNCHANGED <<token, snapshot, reveals, staff>>

\* The submissions of the student are renamed in a statement of their own.
RenameSubmissions(w) ==
  /\ job[w].op = "rename"
  /\ snapshot' = [snapshot EXCEPT ![job[w].id] = IF @ = None THEN None ELSE job[w].seat]
  /\ Continue(w, Idle)
  /\ UNCHANGED <<account, held, token, reveals, staff>>

\* A student opens an information technology quiz: the submission takes over
\* the identity of the user object that authentication loaded.
StartQuiz(w, id) ==
  /\ Known(id) /\ snapshot[id] = None
  /\ Begin(w, [op |-> "start", id |-> id, seat |-> account[id].seat])
  /\ UNCHANGED <<account, held, token, snapshot, reveals, staff>>

CreateSubmission(w) ==
  /\ job[w].op = "start" /\ ~RowLocked(job[w].id)
  /\ LET r == job[w]
     IN snapshot' = [snapshot EXCEPT ![r.id] = IF Known(r.id) /\ @ = None THEN r.seat ELSE @]
  /\ Continue(w, Idle)
  /\ UNCHANGED <<account, held, token, reveals, staff>>

\* UserDetailView.delete: what belongs to the student goes with the row.
FindToDelete(w, t, id) ==
  /\ t \in staff /\ Known(id) /\ ManagesSeat(t, account[id].seat)
  /\ Begin(w, [op |-> "delete", id |-> id])
  /\ UNCHANGED <<account, held, token, snapshot, reveals, staff>>

DeleteStudent(w) ==
  /\ job[w].op = "delete" /\ ~RowLocked(job[w].id)
  /\ account' = [account EXCEPT ![job[w].id] = None]
  /\ token' = [token EXCEPT ![job[w].id] = None]
  /\ snapshot' = [snapshot EXCEPT ![job[w].id] = None]
  /\ Continue(w, Idle)
  /\ UNCHANGED <<held, reveals, staff>>

-----------------------------------------------------------------------------
(* Passwords *)

\* reset_student_password: rights, scope, the new password and the end of the
\* student's sessions, all under the locks of the teacher and the student.  Web
\* processes started before the keys changed encrypt under an older one.
ResetPassword(w, t, id, p, k) ==
  /\ t \in staff /\ ~TeacherLocked(t) /\ ~RowLocked(id)
  /\ Known(id) /\ ManagesSeat(t, account[id].seat)
  /\ account' = [account EXCEPT ![id] = Secured(account[id].seat, p, k)]
  /\ token' = [token EXCEPT ![id] = None]
  /\ Begin(w, Idle)
  /\ UNCHANGED <<held, snapshot, reveals, staff>>

Recent(t) == Cardinality(reveals[t])

\* A key for an audit record; those of older records may be given again.
FreeKey(t) == CHOOSE n \in 0..Recent(t) : \A a \in reveals[t] : a.n # n

\* Every attempt is audited, whatever becomes of it.
Audit(t, told) ==
  reveals' = [reveals EXCEPT ![t] = @ \union {[n |-> FreeKey(t), told |-> told, age |-> 0]}]

\* reveal_student_password is let in by the view, ...
AskPassword(w, t, id) ==
  /\ t \in staff
  /\ Begin(w, [op |-> "ask", by |-> t, id |-> id])
  /\ UNCHANGED <<account, held, token, snapshot, reveals, staff>>

\* ... locks the teacher's row, looks at the rights again and counts the
\* attempts of the last minute, refused ones included; ...
CountReveals(w) ==
  /\ job[w].op = "ask" /\ ~TeacherLocked(job[w].by)
  /\ LET t == job[w].by
     IN IF t \in staff /\ Recent(t) < RevealLimit
        THEN Continue(w, [job[w] EXCEPT !.op = "reveal"]) /\ UNCHANGED reveals
        ELSE Continue(w, Idle) /\ Audit(t, FALSE)
  /\ UNCHANGED <<account, held, token, snapshot, staff>>

\* ... and answers what the ciphertext says if the hash agrees.
Reveal(w) ==
  /\ job[w].op = "reveal" /\ ~RowLocked(job[w].id)
  /\ LET id == job[w].id
         t  == job[w].by
     IN Audit(t, /\ Available(id) /\ ManagesSeat(t, account[id].seat)
                 /\ Decrypt(account[id].cipher, account[id].key) = account[id].hash)
  /\ Continue(w, Idle)
  /\ UNCHANGED <<account, held, token, snapshot, staff>>

\* rotate_student_password_keys --apply locks and reads the available rows, ...
LockRows(w) ==
  /\ \A id \in Student : ~RowLocked(id)
  /\ Begin(w, [op |-> "rotate", rows |-> [id \in {i \in Student : Available(i)} |-> account[id]]])
  /\ UNCHANGED <<account, held, token, snapshot, reveals, staff>>

\* ... and writes each of them under the new key, or none if one is not sound.
RotateKeys(w) ==
  /\ job[w].op = "rotate"
  /\ LET rows == job[w].rows
         sound == \A id \in DOMAIN rows : Decrypt(rows[id].cipher, rows[id].key) = rows[id].hash
     IN account' = [id \in Student |->
                      IF sound /\ id \in DOMAIN rows /\ Known(id)
                      THEN [account[id] EXCEPT !.cipher = [text |-> rows[id].hash, under |-> NewKey],
                                               !.key = NewKey]
                      ELSE account[id]]
  /\ Continue(w, Idle)
  /\ UNCHANGED <<held, token, snapshot, reveals, staff>>

\* A platform administrator takes a teacher's rights away in the Django admin.
Dismiss(w, t) ==
  /\ t \in staff /\ ~TeacherLocked(t)
  /\ staff' = staff \ {t}
  /\ Begin(w, Idle)
  /\ UNCHANGED <<account, held, token, snapshot, reveals>>

Older(attempt) == [attempt EXCEPT !.age = @ + 1]
InWindow(attempt) == attempt.age <= Minute

TimePasses ==
  /\ token' = [id \in Student |->
                 IF ValidToken(id) THEN [token[id] EXCEPT !.age = @ + 1] ELSE token[id]]
  /\ reveals' = [t \in Teacher |-> {a \in {Older(b) : b \in reveals[t]} : InWindow(a)}]
  /\ UNCHANGED <<account, held, snapshot, staff, job, jobs>>

-----------------------------------------------------------------------------
TokenStep(w) ==
  \/ ReadToken(w) \/ IssueToken(w) \/ DropToken(w)
  \/ \E id \in Student : Authenticate(w, id) \/ \E p \in Password : Login(w, id, p)

ProfileStep(w) ==
  \/ \E seat \in Seat, p \in Password : Register(w, seat, p)
  \/ \E id \in Student, k \in Key : InsertStudent(w, id, k)
  \/ \E t \in Teacher, id \in Student :
        FindToDelete(w, t, id) \/ \E seat \in Seat \union {None} : Put(w, t, id, seat)
  \/ SaveStudent(w) \/ RenameSubmissions(w) \/ DeleteStudent(w)
  \/ \E id \in Student : StartQuiz(w, id)
  \/ CreateSubmission(w)

PasswordStep(w) ==
  \/ \E t \in Teacher : Dismiss(w, t)
  \/ \E t \in Teacher, id \in Student :
        \/ AskPassword(w, t, id)
        \/ \E p \in Password, k \in Key : ResetPassword(w, t, id, p, k)
  \/ CountReveals(w) \/ Reveal(w) \/ LockRows(w) \/ RotateKeys(w)

AccountsNext ==
  \/ \E w \in Worker : TokenStep(w) \/ ProfileStep(w) \/ PasswordStep(w)
  \/ TimePasses

AccountsSpec == AccountsInit /\ [][AccountsNext]_accountVars

-----------------------------------------------------------------------------
(* Properties *)

\* Rows hold values of their columns: an account has a ciphertext and a key
\* exactly if its password is said to be available.
AccountsTypeOK ==
  /\ \A id \in Student : Known(id) =>
       /\ account[id] \in Row
       /\ (account[id].status = "available") = (account[id].cipher # None)
       /\ (account[id].cipher = None) = (account[id].key = None)
  /\ \A id \in Student : token[id] # None => Known(id) /\ token[id] \in Session
  /\ \A id \in Student : snapshot[id] # None => Known(id) /\ snapshot[id] \in Seat

\* What a teacher is shown as a student's password lets the student in:
\* whenever a password counts as available, the ciphertext decrypts under the
\* key the row names to the password of the hash, although resets, profile
\* edits and a rotation of the keys write parts of the row at the same time.
RecoverableIsTrue ==
  \A id \in Student :
    Available(id) => Decrypt(account[id].cipher, account[id].key) = account[id].hash

\* However many requests a teacher sends at once, no more than RevealLimit
\* passwords are shown to him in a minute.
RevealsBounded ==
  \A t \in Teacher : Cardinality({a \in reveals[t] : a.told}) <= RevealLimit

\* A password shown to a teacher is the one that lets the student in, and no
\* teacher is shown more of them than the limit, whatever overlaps.
PasswordsInv == RecoverableIsTrue /\ RevealsBounded

\* Two students never have the same seat, by which they log in: registrations
\* and moves that were checked at the same time do not both succeed.
OneSeatOneStudent ==
  \A id \in Student : Known(id) => ~Taken(account[id].seat, id)

\* The identity in a student's submissions is one he had: a move that is
\* refused in the end leaves no trace in the results.
SnapshotsHeld ==
  \A id \in Student : snapshot[id] # None => snapshot[id] \in held[id]

\* A session that is not over stays: neither a login at the same time nor the
\* removal of an expired token that has been replaced meanwhile ends it, only
\* a logout with this very token does.
FreshTokenStays ==
  [][\A w \in Worker, id \in Student :
       (IssueToken(w) \/ DropToken(w)) /\ ValidToken(id) /\ token'[id] # token[id]
         => job[w].op = "logout" /\ job[w].key = token[id].key]_accountVars

\* Rows that hold together: account, token and results of a student, his seat
\* and the identities his results carry.
AccountsInv == AccountsTypeOK /\ OneSeatOneStudent /\ SnapshotsHeld
=============================================================================
