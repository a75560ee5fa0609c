# Specifications of the ITTS community site

TLA+ models of the program in this repository, TLC configurations that check them
on small instances, and proofs that TLAPS checks for every instance. Paths below are
relative to `src/be-itts-community` for the backend and to `src/fe-itts-community` for the web front end.

- Parse a module with `tlasany M.tla`, check a run with `tlc -workers 2 -config X.cfg M`,
  check the proofs of a module with `tlapm M.tla`.
- `PROJECT.json` names, for every definition that stands for code, the lines it stands
  for (`map`), every run with its properties, a plausible bug that breaks each
  property (`mutants`), the hazards of the code and the property that answers each.

## 1. The system

A Go HTTP API (`cmd/server.go`, chi router in `internal/routes`) over Postgres (gorm) and,
optionally, Redis, with a Next.js front end (`src/fe-itts-community`). Handlers decode a
request, call one method of one service and encode its answer; services hold all
the rules; repositories are one gorm statement or a few. Requests run concurrently, one
goroutine each, and share nothing in memory: they meet in Postgres rows and in
Redis keys.

| Component | State | Operations | Meets | Correct when |
|---|---|---|---|---|
| Distributed lock (`pkg/lock`) | Redis keys with a token and a TTL | `WithLock` | every service but auth | at most one function per key runs while it ends in its TTL; nobody unlocks another's key; keys come back |
| Member registration (`registration_service.go`) | `registrations` | Register, AdminApprove, AdminReject, AdminDelete, lists | lock, verification, mailer | members have verified addresses; one active row per address; decisions stand |
| E-mail verification (same service, `email_verification_repo.go`) | `email_verifications` | VerifyEmail | registrations (same transaction), lock | a token works once and is not wasted |
| Mailer (`pkg/mailer`) | none | Send | registration | an approval mail is true |
| Database (`internal/db`) | pool, transactions | `connection.Run`, `Get` | all | commit or rollback, nothing in between |
| Login, refresh, logout (`auth_service.go`) | `refresh_tokens` | Login, RefreshToken, Logout | users, JWT | a token belongs to a user that exists, ends for a reason, is handed on by a refresh or not touched; a changed password ends sessions |
| Users (`auth_service.go`) | `users`, `user_roles` | CreateUser, UpdateUser, DeleteUser, UpdateProfile, ChangePassword, ResetPassword, AssignRolesToUser | tokens (cascade), roles | no update is undone by another; the deleted stay deleted |
| GitHub login (`pkg/oauth`, `auth_service.go`) | users' provider columns | HandleOAuthCallback | users, tokens | one account per identity |
| Roles and permissions (`permission_service.go`) | `roles`, `permissions`, `role_permissions` | create, update, delete, assign, remove | users, JWT | system roles stay; an assignment is all or nothing |
| JWT and middleware (`pkg/auth`, `internal/middleware`) | claims in the token | RequireAuth, RequireRole, RequirePermission | all protected routes | claims are those of some past state of the user, not older than the token's life |
| Audit log (`audit_repo.go`) | `audit_logs` | Create (in a goroutine) | auth, roles | an entry for every change that committed |
| Events, speakers, event registrations | `events`, `event_speakers`, `event_registrations` | create, update, set status, delete, register | lock, each other by cascade | no lost update; one registration per event and address |
| Roadmaps and items, mentors, partners | their tables | create, update, set active/priority, delete | lock | no lost update |
| List queries (`internal/repository/common.go`) | none | SanitizePaging, ParseSort, ApplyListQuery, Paginate | every list route | pages partition the filtered rows |
| Front-end session (`feature/auth`, `app/login`, `app/auth/callback`, `Navbar`) | tokens in localStorage; user, tokens, `isLoading` in a React context; the query of `useMe` | load, login, GitHub callback, logout, profile save, late answers | auth API, other tabs, the gates | the user shown owns the tokens sent; the storage is the tab's; the gates wait, and not for ever; logged out is logged out |
| Gates and menu (`feature/auth/components.tsx`, `AdminSidebar.tsx`) | none | ProtectedRoute, RequireAuth, visibleItems | session | what the menu shows can be entered |
| Admin pages (`app/admin/*`, `feature/*/hooks.ts`) | a cached list with page and filter, a form, a question before a delete, the selected row, pending mutations | open, cancel, submit, delete, turn, filter, answers | services, React Query's cache | the list comes to show what was written; a request is about the row whose form or button sent it; answers close their own forms |
| Toasts, UI, tracing, seeders, build files | - | - | - | out of scope, see section 7 |

**What is hard.** (a) Read-check-write on Postgres rows at READ COMMITTED, by
whole-row `Save`, sometimes read outside the transaction or the lock. (b) Two operations
on one row under *different* lock keys (`verify:<hash>` against `<id>`), or under none. (c) The
lock silently degrading to a no-op. (d) A TTL that runs out, an unlock that is never sent.
(e) `Save` on a row that was deleted meanwhile: gorm inserts it again. (f) Row locks
taken in opposite orders. (g) Mails and audit entries sent by goroutines
after the commit. (h) On the front end, answers that arrive
after a logout, after the dialog they were asked for, or after the list has been turned; and the question before a
delete, which is a plain `div` that keeps the mouse from the page behind it and not the keyboard.
`hazards` in PROJECT.json lists all of them by line.

## 2. Modules

| Module | What it is |
|---|---|
| `Mutex` | abstract specification: one owner per key at a time |
| `Locker` | `pkg/lock`: Redis lock and no-op lock; refines `Mutex` |
| `MCLocker` | its instance for TLC |
| `LockerProofs` | type correctness, mutual exclusion, selective unlock, refinement |
| `Registration` | `registration_service.go`, call by call, composed with `Locker` |
| `RegistrationInv` | the inductive invariant of `Registration`, and the predicates it is made of |
| `MCRegistration` | its instances for TLC |
| `RegistrationProofs` | type correctness of `Registration` and the lemmas about its steps |
| `RegistrationSafety` | the inductive invariant is one; the safety theorems that follow |
| `RegistrationEmails` | no two registrations with one address |
| `RegistrationBook` | abstract specification: a book of registrations on which every request works in one step |
| `RegistrationApprovals` | what the lock is for: approval mails stay true; `Registration` refines `RegistrationBook`, uses `Locker` as it must be used, and knows one deadlock |
| `Session` | the part of `auth_service.go` about `users` and `refresh_tokens`, call by call |
| `SessionStore` | abstract specification: accounts and sessions on which every request works in one step |
| `SessionInv` | the inductive invariant of `Session` |
| `MCSession` | its instances for TLC |
| `SessionProofs` | type correctness of `Session`, no token without a user, password changes end sessions, sessions end for a reason; `Session` refines `SessionStore`; what its deadlocks have in common |
| `Access` | permissions, profiles, checks, gates and menu of the front end, as operators |
| `Browser` | one browser tab: storage, auth state, requests, pages, gates, and the other tab |
| `BrowserInv` | its properties and the inductive invariant |
| `MCBrowser` | its instance for TLC |
| `BrowserProofs` | types, the tab's invariants, the gates' patience, what the menu leads to |
| `Screen` | what the admin pages share: list, dialogs, requests, the server's table |
| `EventScreen`, `RegistrationScreen`, `UserScreen`, `RoleScreen`, `RoadmapScreen`, `ItemScreen` | the pages, handler by handler |
| `Screens` | the pages composed, their properties and the inductive invariant |
| `MCScreens` | its instance for TLC |
| `ScreensProofs` | types and the three properties of the admin pages |

### Locker

`holder[k]` is whose token Redis stores under `k`; `section[c]` is the key under which `c`
runs its function. `Acquire` is `SET NX` answered true (in `noop` mode: the direct call
of the function); `Refuse` is false or an error, including the case that Redis set the
key and its answer was lost; `Release` is the compare-and-delete script; `Abandon` is
a function that ends with its context cancelled, so that the script is not delivered;
`Expire` is the TTL. Callers stand for their own tokens: a token is random and never given
to anybody else. `SlowKeys` are keys whose function may outlive the TTL: for these, two
functions can overlap, and that is what the code gives.

### Registration

A slot is one request being served. `pc` names the call it has reached:

```
Register     idle -> lock -> begin (INSERT registrations) -> commit (INSERT token, COMMIT)
                  -> unlock -> mail -> done -> idle
VerifyEmail  idle -> lock -> begin (UPDATE used_at) -> load (GetByID) -> save -> commit
                  -> unlock -> done -> idle
Approve      idle -> lock -> load (GetByID + checks) -> save -> commit -> unlock -> done -> idle
Reject       as Approve
AdminDelete  idle -> delete (row) -> cascade (token row, commit) -> done -> idle
```

The checks each operation makes before the lock (`FindByEmail`, `FindValidByHash`) are part of
the step in which the request arrives. `regs` and `tokens` are committed rows;
uncommitted writes are in `snap`, the row the request will write; `rowLock` and
`tokenLock` are the row locks Postgres keeps until the transaction ends. `Save` is gorm's `Save`: an UPDATE of
every column, and an INSERT of the record if no row has its id any more. Its INSERT and
Register's wait for every transaction that has touched a row with that address (`EmailBusy`) and
then fail if the unique index has it (`EmailTaken`). `Lock == INSTANCE Locker`
gives the lock's actions; the keys are `<<"email", e>>`, `<<"verify", t>>` and `<<"id", t>>`, as in
the code, so verification and decisions of one registration do not exclude each other.

Abstractions: an id names its registration, its one token and its hash; a validated
request is an address; names, reasons, times and texts are dropped (no check reads them, except
the token's expiry, which is `TokenExpires`). A token becomes known when its mail is
sent. The thank-you mail after a verification changes nothing anybody reads.

`RegistrationBook` is what a caller may rely on: a request is called, takes one step on `regs` and `tokens`, or is refused or fails and changes nothing,
and is answered; the answer may be lost on its way. Between call and step others may have worked; the guard of each step says what is left of the checks by then. `Calls`
is the refinement mapping: a request is pending until its transaction has ended (`Outcome`), settled from then on, so `CommitRegister`, `CommitUpdate` and `DeleteCascade`
are the steps of the book, every rollback is its `Refuse`, a mail that cannot be sent or a request that is cancelled later its `LoseAnswer`, and what comes before the commit stutters. Whether the distributed lock can be relied on
is `Exclusive`, a constant of the book: with it a decision still finds the status it has checked, without it only the row's address and the token's state are sure.

`Waits` says whose transaction the next statement of a request waits for: the row, the token, or the address it inserts (`EmailBusy`).

### Session

No operation of `auth_service.go` takes a distributed lock; `Session` composes with nothing. Slots, `pc`, row
locks and `snap` are as in `Registration`:

```
Login        idle (GetUserByEmail + checks) -> reload -> issue (INSERT token, COMMIT) -> stamp -> done
RefreshToken idle (GetRefreshTokenByHash) -> reload (+ active?) -> revoke -> rotate (INSERT, COMMIT) -> done
Logout       idle (GetRefreshTokenByHash) -> revoke (UPDATE, COMMIT) -> done
Update*      idle (GetUserByID) [-> check] -> save [-> address] [-> roles [-> grant]] -> commit -> done
*Password    idle (GetUserByID + checks) -> save [-> address] -> scan -> revokeall -> commit -> done
CreateUser   idle -> check (GetUserByEmail) -> save (INSERT) -> address [-> grant] -> commit -> done
DeleteUser   idle (GetUserByID + super admin?) -> delete (row) -> cascade (tokens, roles granted, COMMIT) -> done
```

Stages in brackets are those of requests that give an address (`check`), whose row has another address than the one it is written over (`address`), or that
give roles (`roles`, `grant`).

`RevokeAllUserRefreshTokens` is two steps because Postgres makes it two: the UPDATE finds the tokens committed when
it starts (`Scan`), then waits for those that other transactions hold and evaluates
its condition again (`RevokeAll`). A token inserted in between is not found. `Save` of a user that was deleted meanwhile inserts it again,
active, because gorm puts the column's default in the place of `false`. A lookup that fails counts as logged out (`Logout`); a failing
`UpdateLastLogin` is passed over (`Stamp`).

*Who waits for whom* (`Waits`). A statement waits for a row another transaction has written. An insert that refers to
a users row (a refresh token's `user_id`, a role's `granted_by`) waits for a transaction that holds that row
FOR UPDATE: one that deletes it, or updates a column with a unique index (`ChangesKey`, `KeyHeld`). `Save` writes every column, and `email` is
unique: it is such an update exactly when the address it writes is not the one in the row, be it that
an administrator has changed the address since the row was read and a password change writes the old one back. Whoever writes an address
waits for transactions that leave or enter it (`HoldsAddress`) and is refused if somebody has it
(`EnterAddress`). A delete waits for the user's tokens and for the roles the user has granted that another transaction is
taking away (`HoldsGrantsOf`). Requests that wait for one another in a circle are a deadlock, of which Postgres aborts one (`DeadlockVictim`).

Abstractions: a user is an id with status, address, password, `is_active`, `is_super_admin`; names and the access token are left out. Of
`user_roles` there is only what a transaction takes away, and that by its granters (`stripped`, any set of users that are there, to whom the foreign key confines them: what the
table held is not modelled); `roles` is left out, and with it the two endpoints that assign and remove roles outside a user's update. Audit entries are
inserted after the commit and hold nothing. A cascade takes all its rows in one step. `OAuthUser` is what a
GitHub login leaves behind. The reads that only fill an answer (after UpdateProfile's
save, in CreateUser's transaction) are left out, and so is a first read that fails, which
changes nothing. `had` is an auxiliary variable: the live tokens of the user when its password was saved.

`SessionStore` is to `Session` what `RegistrationBook` is to `Registration`: a refresh ends one session and begins the next at once, a password change ends at
once at least the sessions that lived when the password was saved (`had`, which its `due` shows), a delete takes the account with all its sessions.
A login takes effect when its token is committed, before its `UpdateLastLogin`.

### Access and Browser

A session is the pair of tokens a login was given; the code stores, keeps and drops the two together. `store` is
localStorage, `user`, `access`, `refresh`, `authed`, `loading` are the fields of `AuthState`, `me` is the query of `useMe`,
`late` the requests whose answer calls `updateUser` and which nothing in the tab waits for. The server's part is what the tab can tell
of it: whose session it is and how old its access token is (`fresh`; `ending`: within the 30 seconds of `isTokenExpired`; `dead`).

```
load      -> Mount (effect of AuthProvider) -> useMe asks (AskBy) -> MeAnswered, or MeFails -> MeRetries until the attempts are used up;
             an attempt begun while the tab is hidden or off line waits for MeResumes
login     LoginSubmit -> LoginAnswered / LoginFails;   GitHub: OAuthReturn -> CallbackRuns -> CallbackRedirects
logout    LogoutClick -> LogoutAnswered / LogoutFails, each of which forgets everything
profile   ProfileSave -> LateAnswer / LateLost
gates     GateToLogin (RequireAuth), GateToHome (ProtectedRoute), both only while isLoading of useMe is false (MeLoading)
```

What the code does that a reader may not expect, and the model has: React Query pauses the attempts of `useMe` while the tab is hidden or off
line, `isLoading` is false then, and the gates send a user with a good token to the login page; a request of `useMe` that is in flight at a
logout is dropped by `queryClient.clear()` and still writes its answer into the state (`Forget` moves it to `late`); the effect of
the callback page runs before that of `AuthProvider`, or after it; the callback page redirects half a second
later wherever the tab is by then; a logout whose access token is dead is refused by the middleware, the tab forgets the session all the same, and the refresh
token lives on until it expires. `strayed` is auxiliary: a profile came in for other tokens than the tab holds; so is `foreign`: the
other tab has touched the storage since.

Abstractions: profile contents are `profileOf`, a constant: roles changed during a session are left out. Users without any
permission are left out by assumption: the server omits an empty list and `permissions.includes` then throws.

### Screen and the admin pages

`db` is the server's table, `view` the list on the screen known by its age (`none`, `current`, `old`, `failed`), `fetch` the
request for it: asked, or read by the server when the table was as it is (`current`) or was not (`old`). `dialog` is the form that is open,
`asked` the row for which the question before a delete was opened last, `target` the row in the state variable the handlers read
(`selectedUser`, `editEvent`, ...), `shown` the row the form was opened for: `shown` and, but on the events page, `asked` are auxiliary, for the properties to
compare with `target`. `calls` are the requests of mutations, `sent` or `done` on the server; `by` says whether the component that
holds the mutation is still mounted, which decides `isPending` and the per-call continuations. `missed` is auxiliary:
something was written that the tab cannot know of.

*What can be used when.* The forms are Radix dialogs (`components/ui/dialog.tsx`): one is open, and nothing else on the page can be reached. The question
(`ConfirmDialog`) is a plain `div` over the page, without focus trap and not inert: the keyboard reaches every button behind it. So forms
are opened over the question, and the question is asked again about another row, also while a delete is pending (`Free` does not
look at `asked`); only its own two buttons wait for the answer, and are out of reach behind a form (`ConfirmIdle`).

Each page module has one action per handler: what opens a form or the question (`EventOpen`, `handleRejectClick`, `AskDelete`), what leaves it
(`...Cancel`), what sends (`handleEditSubmit`, `RoadmapScreen!handleUpdate`), and the whole of an answer (`...Answered`): the
invalidation of `onSuccess` and the continuation in the page, which clears row and dialog *whatever they are by now*.
The pages differ where the code does: events keep a row per dialog, registrations and users share one
and clear it, roles share one and never clear it, the roadmap pages clear it on some ways out; users and roles unmount
their modals; registrations and users close the question at once, the others when the answer comes; roles ask with
`window.confirm`, which stops the page.

On registrations, roadmaps and roadmap items (`Selecting`) a form that is left keeps its row selected: a question that lies behind it deletes that
row. On the roadmap items page the question does not even name it. The users page is not among them because closing its form clears the row,
which is what `RequestsNameTheirRow` rests on there.

`Switch` is what React Query does when page or filter change: the list was never seen, was seen less than 15 seconds ago,
was seen before, or is still on its way since it was left (only `useListEvents` passes its signal on).
`Invalidate` does not repeat a first fetch that is in flight, as React Query does not.

Abstractions: the row's content is one of two values that buttons and filters tell apart; a form sends any content, or
`Edited` when what it edits is nothing the page tells apart; the server writes what it is sent (`Serve`, after `roadmap_service.go`); permission ticks, texts and toasts are left out.

Mutated forms of operations ("a slip") stand before the
definition they would replace. No specification uses them.

## 3. Runs

| Run | Question | Instance | States |
|---|---|---|---|
| `locker` | Does `WithLock` exclude, unlock only its own, let keys come back, and refine `Mutex`, with failing calls and with one slow key? | 3 callers, 3 keys | 282 |
| `registration_redis` | Under the Redis lock with faults: is an approval mail true, and is a delete with a verification in every circle of waiting requests? | 3 slots, 1 registration, 1 address | 452k |
| `registration_noop` | Without any lock: do row locks and the unique index alone keep members verified, tokens unspent, addresses of active registrations single, approvals standing, and does every request work in one step (`RegistrationBook`)? | 2 slots, 2 registrations, 1 address | 139k |
| `registration_live` | Is every request answered, also through the delete/verify deadlock and slow transactions? | 2 slots, 1 registration | 24k |
| `rejection_reopened` | (violation) does a committed rejection stand? | 2 slots, 1 registration | - |
| `rejected_refused` | (violation) may a rejected applicant register again? | 2 slots, 2 registrations, 1 address | - |
| `session` | Do refresh tokens stay with existing users, end only for a reason, and not survive a password change, and does every circle of waiting requests contain one that changes a key? | 2 slots, 2 users, 2 tokens, 2 addresses, 1 password, faults | 1.37M |
| `session_live` | Is every request about users and tokens answered, also through deadlocks, and does it work in one step (`SessionStore`)? | 2 slots, 1 user, 2 tokens, 1 address | 300k |
| `forces_relogin` | (violation) has a user no session left when a password change commits? | 2 slots, 1 user, 2 tokens | - |
| `browser` | Is the user on the screen the tokens' own, the storage the tab's, do the gates wait for the answer (unless it is paused) and stop waiting? | 2 logins, 2 users, 2 admin pages, 1 retry | 562k |
| `logout_cleared` | (violation) is nobody logged in after a logout? | as `browser` | - |
| `screens` | On every admin page: does the list come to show what was written, is a request about the row whose form or button sent it, does the answer to a rejection leave other forms alone? | 6 pages, 2 rows, 1 request in flight | 2.92M |

**Bounds.** `Slots`, `Regs` and `Emails` are the only bounds; nothing else is
counted. Every hazard found by reading needs at most two requests on one registration (verify and
decide, verify and verify, delete and decide, delete and verify), so three slots on one registration leave
room for an outsider; two registrations of one address are needed for the unique
index and for a row that comes back after its address was taken again. A registration id
is drawn once, so `Regs` bounds registrations ever made: runs end in states where no more can be
registered, which hides no interleaving of those that exist. Symmetry (slots,
registrations, addresses are interchangeable: no `CHOOSE` ranges over them) is used in safety runs
only, never in the liveness run.

The refinements are checked where two slots suffice: what a request does between its call and its step is disturbed by one other. `registration_noop` has
faults and two registrations of one address; `session_live` has no faults (it is without symmetry, being a liveness run),
and the theorem of section 5 has them. A circle of three requests needs three slots, which `registration_redis` has; in `session`
with its two slots circles are short, and again the theorem is about any number.

For `Session` the hazards are between two requests: about one user, or about two users of whom one has granted the other roles or wants
the other's address. Two users and two addresses are what the safety run has. Two tokens are an old one and its successor.
One password is enough: no property compares passwords, and a login with the old password that
is answered after a change is a login that has checked before it. A login or refresh arrives only while a token is left
for it (`TokenLeft`), so the bound never strands a request. `SuperFlags` and `ActiveFlags` limit what administrators write; the
safety run never writes a super admin, whose deletes would be refused. A deadlock over an address takes two addresses, which only the safety run has; that every
circle is broken is checked by the liveness run on the circles of one user.

For `Browser`: two sessions are the old one and the new one; what goes wrong between sessions goes wrong between two, and a third is
a second after the first was forgotten. The users are a super admin and one whose permissions show the menu entry of the
roles page and not the page (`events:list`, `permissions:list`), so that both gates fire. `Retries` is 1 where the code has
2: one retry already separates "failed once" from "given up". The proofs hold for every number.

For `Screens`: two rows and a page size of one make a pager, a filtered list shorter than the page, and a dialog for another row than the
request's: with one request in flight the form can be left, or the question asked again, for the other row while it is pending. A second request
in flight never fitted the minutes a run may take once forms and question are open together; the proofs hold for any `InFlight`. Requests that are alike count as one. The proofs hold for any number of rows and requests. Neither run uses symmetry: rows have an order, users a profile.

**The four violations** are what the code does against what the repository says of it:

- `RejectionStands`. VerifyEmail locks `verify:<hash>`, AdminReject locks `<id>`. Verify reads the row
  (`pending`), Reject commits `rejected`, Verify saves the whole row it read with the
  verified flag: `pending` again. readme.md:233 demands a lock wherever transactions may conflict.
- `RejectedMayRegisterAgain`. An applicant registers and is rejected; he registers again, and `FindByEmail` (registration_service.go:47) finds the
  rejected row: 409. The index of migrations/00003:17 is over rows of every status, too; that of line 24 (over active rows) adds nothing to it. migrations/00003:23 and
  internal/db/postgres/migration/202509200200_registrations.sql:18 say that who was rejected may register again. The other half of the sentence, an
  address is unique among active registrations, holds (`OneActivePerEmail`).
- `ForcesReLogin`. A login has checked the old password; ChangePassword's UPDATE looks for tokens; the login inserts
  its token; the change commits. The session opened with the old password lives for its seven days, against
  auth_service.go:384 ("force re-login"). A refresh in the same place does the same.
- `OutIsOut`. `useMe` has asked for the profile; the user logs out, the state is cleared; the answer comes and `updateUser`
  (feature/auth/context.tsx:203) sets the user and `isAuthenticated` again: logged in on the screen, without tokens, against
  RBAC_FRONTEND.md:486 ("Clear all auth state on logout").

**Read in the code, and needing no run.** Logout answers success for every error of its lookup (auth_service.go:254), not only for
"Token not found or already revoked": a database error, a timeout; the token goes on working (`Logout` has it).
`cmd/server.go:139` passes `Mailer: nil`, against readme.md:70 (the registration mail). `useRefreshToken` and
`updateTokens` have no caller, against RBAC_FRONTEND.md:473 (automatic refresh); the logout on a 401 (hooks.ts:155-162) looks for "401" in messages
that never contain it, against RBAC_FRONTEND.md:485. `useAddSpeaker` (events.ts:381) sends no token: adding a speaker is always refused
(`Screen!Serve`). `atob` on a base64url token may throw, which `CallbackFails` has. The page gates accept `:read`, the lists behind them need `:list`.
The sidebar shows the roles entry to holders of `permissions:list`, whom the page sends home: `MenuLeadsIn` therefore excludes it.

What a password change does guarantee is `PasswordChangeEndsSessions`: whatever session the user
had when the new password was saved is gone, because the UPDATE waits for the tokens that others hold.

An approval, on the other hand, is never taken back by a verification (`ApprovalNotUndone`), lock or
no lock, for a reason that is in no comment: see section 5.

## 4. Fairness

`Locker!Fairness`: a function that was started returns, Redis enforces a TTL. Both weak: nothing disables them
but their own step.

`Registration!Fairness`: strong fairness on the steps of each request, weak on TTLs. Steps that
wait for a row are disabled and enabled again as the lock changes hands, and weak fairness would let
others overtake for ever; Postgres queues the waiters of a row in the order they
came, which is what strong fairness says. It aborts one of two transactions that wait for each other
(`DeadlockVictim` is one of the steps). Arrivals and faults have no fairness: no
client has to call, nothing has to fail. A request is a goroutine, so once arrived it runs.
`Session!Fairness` is the same without TTLs. `Registration!EveryRequestAnswered` is checked with slow transactions and without faults; `Locker`'s
liveness is checked with faults.

`Browser!Fairness`: weak, on the effect of `AuthProvider`, on `useMe`'s answer *or* failure, and on the two redirects of the gates. React
runs an effect after the render that asked for it, and a browser ends every request. That answers are good, that users
act, that tokens age is not assumed. `SpinnerEnds` excepts tabs that are loaded again for ever. `Screens` states no
fairness: its properties are about what may never happen, and "once all is answered" is a condition.

## 5. What is proved

For all values of the constants that satisfy the modules' assumptions:

- `LockerProofs!TypeCorrect`, `RedisMutualExclusion`, `UnlockIsSelective`,
  `RedisImplementsMutex`. Mutual exclusion is not inductive by itself. The invariant is
  `HeldWhileInside`: whoever is inside under a key that is not slow is the one whose token Redis
  stores. `Acquire` needs the key to be free, `Release` and `Abandon` take only the caller's own
  token away, `Expire` touches such a key only when its holder is gone. Two
  callers inside under one key would both be its one holder. The refinement maps the owner of a key to
  the caller inside it; `Acquire` maps to the mutex's grant, `Release` and `Abandon` to its
  release, the rest to stuttering.
- `RegistrationProofs!TypeCorrect`: types, and `StagesFit`, which says that a request is only at stages its
  operation has. The second conjunct is needed by the first: the rows a step writes are typed because
  a request that writes has read or built its row earlier.

- `RegistrationSafety!InductiveInvariant`, and from it `MembersAreVerified` (`ApprovedIsVerified`),
  `TokensAreNotWasted` (`SpentTokenIsNotStranded`) and `ApprovalsStand` (`ApprovalNotUndone`). The
  assumptions say nothing about `Mode`, `SlowDecisions` or `Faulty`: these hold without Redis.

**The argument.** None of the three is inductive: a request carries a row it read some steps ago
(`snap`) and will write all of it. `IInv` (module `RegistrationInv`) says what that row can be.
Row locks belong to the transactions that took them (`RowLocksHeld`,
`TokenLocksHeld`); a verification past `MarkUsed` holds its token, if there is one
(`VerifierHoldsToken`), so verifications of one registration come one after the other although they
checked the token earlier. An id that was drawn for a registration belongs to it alone (`KnownIds`, `FreeIds`).
What is to be written fits the operation (`Snapshots`). While a token is unused nobody has seen the row verified
(`UnusedMeansUnverified`); a row without token was brought back by a `Save` and is verified
or rejected (`NoTokenMeansDecided`); a verification that will write `pending` holds an unused token
(`PendingWriteback`); one that has nothing to save found the row verified or rejected
(`NothingToSave`).

So: only a verification can write `pending` over a row that exists; then the token is unused, so the row is not verified, so it
is not approved. That is `ApprovalsStand`. The proof has one lemma per kind of step (a quiet move, an arrival, an
abort, a row lock taken, the two loads, the commits, the delete), and in it one step per conjunct.

- `RegistrationEmails!AddressesAreUnique` (`OneActivePerEmail`), with either locker. The code gives more than that, no two rows of any status with one
  address (`OneRowPerEmail`), and the proof goes through it: a row's status changes under transactions that do not look at addresses. What makes it inductive is `EmailInv`:
  a transaction that has taken its row carries an address that no other row has and no other transaction is about to
  write (`NoRival`). An insert waits for the others on its address (`EmailBusy`) and then looks (`EmailTaken`); an update
  has looked for nothing, but it writes the address its row has (`AddressKept`), also when the row it read was deleted
  and brought back by another request meanwhile. Only a verification commits without having taken its row (`InsertHoldsRow`).
- `RegistrationApprovals!ApprovalMailsAreTrue` (`ApprovalMailIsTrue`), assuming `Mode = "redis"` and `~SlowDecisions`,
  and only there: without either a rejection that has read its row before the approval overwrites it. `DecisionHoldsKey`: a decision holds the Redis key of its
  registration from its read to its answer, so decisions on one registration come one after the other.
  `NoRejectionBehind`: once an approval has read its row, neither the row nor a copy in flight says `rejected`.
  A verification takes another key, so `RejectionSeen` is needed: it carries `rejected` only if the row says so
  or is gone, and then no approval passes its check. One that carries `pending` holds an unused
  token, and an approved row has none (`PendingWriteback`). Hence `PromiseKept`.

- `SessionProofs!InductiveInvariant`, and from it `TypeCorrect` (`TypeOK`) and `TokensHaveUsers` (`NoTokenWithoutUser`), for
  any number of slots, users, tokens and passwords, with or without faults. That a token has a user is not
  inductive: a commit writes `revoked` into every token its transaction holds, and `present` into the user it
  saves. `LockedTokensExist` says that what a transaction holds is there (a delete waits for it, an insert is never
  held), `WritersHaveRead` that what will be saved was read from a present row, `SubjectsKnown` and
  `IssuedTokensOwned` that the token a request presented was issued and has an owner.
- `SessionProofs!PasswordChangeIsEffective` (`PasswordChangeEndsSessions`), from that invariant and `PasswordInv`, which
  follows one password change through its stages: the tokens its user had are the user's when it scans,
  found if they still live when it waits, held when it commits, dead when it is answered. The
  proof is split by who moves: the request itself (`KeptByArrival`, `KeptByStep`), or another (`KeptByOthers`), which
  leaves its slot and its rows alone (`OthersStay`) and brings no dead token back (`NoTokenReturns`).
- `SessionProofs!SessionsEndForAReason` (`SessionEndsForAReason`), from `ReasonInv`: a transaction that holds a token is a
  refresh that was asked with it, or a password change that found it among its user's, and the user of a refresh or
  logout is the owner of its token. A commit revokes exactly the tokens it holds.

- `BrowserProofs`: `TypeCorrect`, `ProfileOwnsTokens` (`ProfileMatchesTokens`), `StorageIsTheTabs` (`StoreFollowsTab`),
  `NobodyIsSentAwayEarly` (`GateWaits`), from `BrowserInv!IInv`. That the user owns the tokens is not inductive: an answer brings the owner of the
  session it was asked with, which must have been issued (`TokensAreIssued`); a gate looks at `authed` where the property
  speaks of the user (`AuthedMeansUser`); and a gate finds a token without a user only when all attempts failed or one is paused, because
  from the load on `useMe` asks whenever there is one without the other (`ProfileIsSought`). `MenuLeadsIn` and
  `SuperAdminGoesAnywhere` are about the operators of `Access`, for every profile.
- `ScreensProofs`: `TypeCorrect`, `RequestsAreRight` (`RequestsNameTheirRow`), `RejectionsCloseTheirOwn`
  (`RejectClosesItsOwn`), `OwnWritesAreShown` (`ListShowsOwnWrites`), for any rows, pages and requests in flight. A request copies `target`
  where the property speaks of `shown` or `asked`; `DialogKnowsItsRow` says that they agree but for forms whose
  row was cleared, which send nothing, and, on the users page, for a question that a form covers. `RejectWaits` says why the continuation of a rejection finds its own
  form or none: the buttons that open a reject form wait for the answer; `StaysMounted` says that they know of it.
  `AnswerToCome` carries `ListShowsOwnWrites`: while a list is old and nothing was missed, the answer that will
  invalidate it is still to come. The proof has one lemma per page and kind of step.

**What callers see, and composition.**

- `RegistrationApprovals!RequestsAreAtomic` (`ImplementsBook`), for either `Mode`, with slow decisions and faults. Its invariant is the three above
  with `BookInv` (an answer is there once a request is settled, a delete in its cascade holds a row that is there, every
  row and every copy has an address) and, when `Exclusive`, `DecisionsFresh`: the row that a decision has read has not been decided
  otherwise when it is written, which follows from `DecisionHoldsKey` for other decisions and from `PendingWriteback` for verifications. There is one lemma per
  operation (`RegisterRefines`, `VerifyRefines`, `DecisionRefines`, ...), and `StepRefines` joins them.
- `RegistrationApprovals!OneInsidePerKey`: every step of `Registration` is a step of `Locker` or leaves it alone (`LockerSteps`), so
  `Locker`'s mutual exclusion, proved for any keys and callers, holds of the service: `LP` instantiates `LockerProofs`
  for the keys of `Registration`.
- `SessionProofs!SessionsAreAtomic` (`ImplementsStore`). Besides the invariants above it needs `StoreInv`: a delete in its cascade holds the user's
  row, which is still there, because whoever else would delete or insert it waits (`HeldRowStays`); a refresh at its insert holds the token it was asked with,
  unless that went with its user; what is saved is a user that was once made.
- `RegistrationApprovals!NoOtherDeadlock` (`CirclesAreBroken`): in any set of requests of which each waits for one of the
  set, a delete and a verification wait for each other. This is what makes it right to model Postgres' deadlock detector there by
  a `DeadlockVictim` that knows this pair only. The argument: whoever is waited for holds a row, and waits itself,
  so is at one of the few stages where a transaction does both (`HoldersThatWait`); followed from any request the circle comes to a delete in its cascade, and from there
  to the transaction that holds the token, which has nothing to wait for but the row of that delete.
- `SessionProofs!NoOtherDeadlock` (`CirclesChangeAKey`): in any such set of requests of `Session` one changes a key of a users row. The deadlock detector of
  `Session` is general (any circle, of any length), so nothing rests on this theorem but what it says: as long as nobody
  deletes or creates users or changes addresses, logins, refreshes, logouts, password changes and grants never deadlock. An
  address change needs no request for one: a password change that writes back an older address is one. Without such a
  request nothing waits for a key, an address or a cascade. Whoever holds a token is then at its insert, which would wait for a key, or at its
  commit; whoever holds a users row waits for no other users row, so for a token, whose holder waits for nothing. That a circle, once broken, lets everybody through is liveness, and stays with the `_live` runs.

## 6. Only model-checked

`LockComesBack` and `EveryRequestAnswered` (liveness under fairness, and with it ENABLED, is beyond the prover);
`SpinnerEnds` for the same reason. Every safety and action property and every refinement that a passing run checks is proved. Induction over data and
RECURSIVE operators are beyond the prover as well; the modules use neither.

## 7. Not modelled

- Signing of JWTs, bcrypt, SHA-256, SMTP, the wire protocols of Redis and Postgres: libraries. What
  their callers rely on (a token is unguessable, a commit is atomic) is part of the models.
- The pool of 50 connections (`internal/db/postgres.go:52`): needs all services at once.
- Postgres only as far as its documentation and the code rely on it: READ COMMITTED, row locks until
  the end of the transaction, unique indexes that wait for concurrent writers, foreign keys with cascade,
  deadlock detection. React and React Query likewise: effects, unmounting, caching, invalidation, retries.
- The services of events, speakers, event registrations, roadmaps, mentors and partners: each reads a row, takes a lock,
  and saves the whole row. They promise nothing that a lost update breaks, so a model could only repeat that there are lost updates
  (`hazards` has the lines). Their admin pages are modelled.
- The service of roles and permissions, and the claims in access tokens: assignments as delete-then-insert without a
  transaction (`hazards`); permissions reach the front end as the constant `profileOf`.
- Paging arithmetic and the SQL text of list queries (`internal/repository/common.go`): no state; the pager of the
  pages is modelled from the counts the server returns.
- Public pages of the front end (home, events, program, blog, docs, the registration form): one fetch or one
  request each, nothing shared. `app/docs/page.tsx` shows its "checking the session" text for ever once `useMe` has given up,
  because it waits for a user rather than for the query. The dashboard shows constants. The password form of the profile page changes no state of the tab.
- Toasts (`hooks/use-toast.ts`): what is shown and for how long; nothing reads it.
- Components, styles, Docker and CI files, seeders, audit entries, tracing: no state of the protocol, or pure I/O.

## 8. How it was built, and what would come next

`Locker`, then `Registration` over it, then `Session`, each with its runs and then its proofs; then the front end, first the
session of a tab (`Access`, `Browser`), then the admin pages (`Screen` and its extensions, composed in `Screens`). The two sides meet only in
what each assumes of the other: the front end's server gives sessions, answers or fails; the backend's clients call or do not.

The abstract specifications of the backend (`RegistrationBook`, `SessionStore`) came last, with the refinements.

Worth doing next, in this order: the GitHub callback's find, link or create; permissions that change during a session, on both sides; an abstract
specification of what a tab promises, which `Browser` implements.
