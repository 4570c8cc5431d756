----------------------------- MODULE MCServices -----------------------------
(***************************************************************************)
(* The transaction flow and the services whose calls are made of it, side  *)
(* by side: `part` names the one a behaviour is about, and the others stay *)
(* as they began, so that the states of the parts add up and do not        *)
(* multiply.  Each part is small enough to be checked whole.  What has no  *)
(* states of its own is asked, one `question` to a behaviour, which says   *)
(* all it has to in its first state.                                       *)
(***************************************************************************)
EXTENDS Transaction, TLC, FiniteSetsExt

CONSTANTS NoFile, NoObject, NoFactor, NoSession, NoConnection, NoLink,
          NoAccount, NoRole, NoMember, NoTenant
CONSTANTS
  Callers,                                              \* who meet, whoever calls a part
  Window, MaxFailures, LockFor, MaxClock, MaxSecrets,   \* of a second factor, and of logins
  MaxPasswords,
  IdleTtl, Touch, Ttl, MaxTokens, MaxMailed,            \* of sessions, and of mailed tokens
  Keys, Shipped, MaxRoles, MaxMembers,                  \* of roles
  Tenants, Connections, Notes, MaxStatements            \* of the rows of tenants


VARIABLES
  part,
  file, object, product, url, confirmer, keeper, taken, late, alone, kept,
  factor, holder, request, clock, secrets, used, twice, wrong,
  session, holding, now, tokens, rotated, ended,
  mailed, expired, mail, superseded, worked,
  connection, valid, link, copies, made, grants, call, calls, pushed, undisturbed, inTurn, blocking, inside,
  short, signed, revocations, lapsed, caller, visitor, replaced, sole, opened,
  table, state, moves, work,
  account, login, accountClock, meant, mistaken, crossed, met,
  role, member, granted, roles, members, admin, given, apart,
  db, stage, context, held, levels, setting, notes, trail, lasting, owed, statements, last,
  question

fileVars == <<file, object, product, url, confirmer, keeper, taken, late, alone, kept>>
factorVars == <<factor, holder, request, clock, secrets, used, twice, wrong>>
sessionVars == <<session, holding, now, tokens, rotated, ended>>
mailVars == <<mailed, expired, mail, superseded, worked>>
calendarVars == <<connection, valid, link, copies, made, grants, call, calls, pushed,
                  undisturbed, inTurn, blocking, inside>>
linkVars == <<short, signed, revocations, lapsed, caller, visitor, replaced, sole, opened>>
lifeVars == <<table, state, moves, work>>
accountVars == <<account, login, accountClock, meant, mistaken, crossed, met>>
roleVars == <<role, member, granted, roles, members, admin, given, apart>>
tenantVars == <<db, stage, context, held, levels, setting, notes, trail, lasting, owed,
                statements, last>>
partsVars == <<part, vars, fileVars, factorVars, sessionVars, mailVars, calendarVars,
               linkVars, lifeVars, accountVars, roleVars, tenantVars, question>>


Symmetry == Permutations(Callers)

Fil == INSTANCE Files WITH
  Confirmers <- Callers, Keepers <- {"k1"},
  Contents <- {"fine", "infected", "odd", "empty", "large"}

Fac == INSTANCE SecondFactor WITH Requests <- Callers, LockSteps <- LockFor

Tok == INSTANCE AuthTokens WITH Requests <- Callers, Mails <- Callers, replaced <- rotated

Cal == INSTANCE CalendarSync WITH MaxVersion <- 2, MaxEvents <- 3, MaxGrants <- 2, MaxCalls <- 3

Lin == INSTANCE Links WITH Visitors <- {"v1"}, MaxShort <- 3, MaxSigned <- 3

Move(from, trigger, to, by) == [from |-> from, to |-> to, trigger |-> trigger, by |-> by]

Life == INSTANCE TransitionLog WITH
  States <- {"draft", "open", "done"}, Initial <- "draft", Terminal <- {"done"},
  Triggers <- {"go", "back"}, Actors <- {"client", "staff"}, MaxRows <- 6, NoState <- "none",
  Moves <- { Move("draft", "go", "open", {"client"}), Move("draft", "go", "open", {"client", "staff"}),
             Move("draft", "go", "done", {"staff"}), Move("open", "back", "draft", {"client"}),
             Move("open", "go", "done", {"staff"}), Move("open", "go", "open", {"client"}),
             Move("done", "back", "open", {"staff"}) },
  rows <- moves

Acc == INSTANCE Accounts WITH
  Logins <- Callers, clock <- accountClock, wrong <- mistaken

Rol == INSTANCE Roles WITH
  grants <- granted, caller <- admin, meant <- given

MCNotes == [n \in {1, 2} |-> IF n = 1 THEN "A" ELSE "B"]
Ten == INSTANCE Tenancy WITH
  Flows <- Callers, scopes <- levels, durable <- lasting

Arc == INSTANCE Archive

\* The trail: entries of one moment and of several, of tenants and of none; records
\* that gain, lose and change what is told, redacted or ignored.
Entry(seq, at, tenant) == [seq |-> seq, occurredAt |-> at, tenant |-> tenant]
Logs == UNION {{{Entry(i, at[i], IF i \in ofA THEN "A" ELSE "B") : i \in 1..n} :
                  at \in [1..n -> 1..2], ofA \in SUBSET (1..n)} : n \in 0..4}
Records == UNION {[keys -> {1, 2}] : keys \in SUBSET {"name", "pin", "updatedAt"}}
TrailQuestions ==
  [kind : {"change"}, before : Records, after : Records]
  \union [kind : {"log"}, log : Logs, size : 1..3, olderThan : {1, 2}, tenant : {NoTenant, "A"}]

\* What a calendar says is busy; and wall clocks around a change of the offset.
Item(id, starts, ends, word, status, span) ==
  [id |-> id, starts |-> starts, ends |-> ends, word |-> word, status |-> status, span |-> span]
Plain == {Item("a", s, e, "busy", "confirmed", "hours") : s \in {0, 2, 4, 5}, e \in {2, 3, 6}}
Odd == {Item(i, s, e, w, st, t) : i \in {"b", "ours", ""}, s \in {1, 3}, e \in {3, 7},
          w \in {"busy", "free", "transparent", "workingElsewhere"},
          st \in {"confirmed", "cancelled"}, t \in {"hours", "days", "none"}}
CalendarQuestions ==
  [kind : {"busy"},
   items : UNION {kSubset(k, Plain) : k \in 0..3} \union {{p, o} : p \in Plain, o \in Odd}]
  \union [kind : {"instant"}, wall : -8..8,
          zone : {[at |-> 0, before |-> b, after |-> b + d] : b \in -12..13, d \in {-2, -1, 1, 2}}]

\* Keys of files of two tenants, with parts that are no ids; the lifecycle of a
\* bucket; seals under two masters; archives of none to two files, one byte of
\* what they say changed.
UpTo(S, n) == UNION {[1..k -> S] : k \in 0..n}
KeyParts == [tenantId : {"A", "B", ".."}, scope : UpTo({"x", "A", "a b"}, 2), fileId : {"x", "y"},
             extension : {"", "pdf"}]
KeyOf(tenant) == [tenantId |-> tenant, scope |-> <<"x">>, fileId |-> "x", extension |-> ""]
Contents == {<<>>, <<1>>, <<1, 1, 1>>, <<1, 2, 1>>, <<2, 1, 1>>}
Entries == [path : {<<"a">>, <<"..", "a">>, <<"b", ".", "c">>, <<"b", "c">>, <<"", "..">>},
            content : Contents, year : {1970, 2024}]
           \union [path : {<<"d">>}, content : {<<1, 1, 1>>}, year : {2107, 2108}]
Recent == {e \in Entries : e.year = 2024 /\ e.content \in {<<1, 1, 1>>, <<1, 2, 1>>}}
Changes == [what : {"crc", "body"}, to : Contents] \union [what : {"compressedSize", "size"}, to : 0..4]
           \union [what : {"flags"}, to : {1, 8}] \union [what : {"method"}, to : {0, 8}]
           \union [what : {"offset", "local"}, to : {0, 31, 32, 33, 34, 35}]
           \union [what : {"count"}, to : 0..3] \union [what : {"disks"}, to : {1}]
ArchiveQuestions ==
  [kind : {"key"}, one : KeyParts, other : {k \in KeyParts : k.extension = ""}, rules : {{}}]
  \union [kind : {"key"}, one : {KeyOf("A")}, other : {KeyOf("B")},
          rules : SUBSET [id : {"r", "s"}, prefix : {"none", "p"}, days : {1, 2}]]
  \union [kind : {"seal"}, sealed : [key : {"k", "l"}, master : {"m", "n"}, aad : {"", "o", "p"}],
          opened : [master : {"m", "n"}, aad : {"", "o", "p"}]]
  \union [kind : {"zip"}, entries : UpTo(Entries, 1), options : [store : BOOLEAN], ceiling : {33, 34, 1000},
          change : Changes]
  \union [kind : {"zip"}, entries : [1..2 -> Recent], options : [store : {FALSE}], ceiling : {66, 1000},
          change : Changes]

\* Cards with words of every length and pictures of every shape, or none, one
\* to three of them; and every pattern of three modules by three.
Cards == [heading : {0, 50, 400}, caption : {0, 90, 3000}, footnote : {0, 100}, lines : {<<>>, <<30>>, <<30, 300, 40, 20>>},
          logo : {<<0, 0>>, <<200, 500>>, <<9000, 100>>}, plan : {<<0, 0>>, <<4, 3>>, <<100, 1>>}]
Bare == [heading |-> 50, caption |-> 90, footnote |-> 0, lines |-> <<>>, logo |-> <<0, 0>>, plan |-> <<0, 0>>]
PrintQuestions ==
  [kind : {"cards"}, cards : {<<>>} \union {<<card>> : card \in Cards}
                             \union [1..3 -> {Bare, [Bare EXCEPT !.footnote = 100], [Bare EXCEPT !.plan = <<4, 3>>]}],
   format : {"a4", "a5", "tent"}]
  \union [kind : {"code"}, dark : SUBSET ((0..2) \X (0..2))]

\* How much there is of each; and a row that is not there is no row.
ASSUME AmountsAssumption ==
  /\ {Window, LockFor, MaxClock, MaxSecrets, Ttl, MaxRoles, MaxMembers} \subseteq Nat
  /\ {MaxFailures, MaxPasswords, MaxTokens} \subseteq Nat \ {0}
ASSUME RowsAssumption ==
  /\ NoFactor \notin Fac!Factor /\ NoSession \notin Tok!Session /\ NoAccount \notin Acc!Account
  /\ NoRole \notin Rol!Role /\ NoMember \notin Nat
  /\ NoConnection \notin Connections

Parts == {"flow", "files", "factor", "sessions", "mail", "calendar", "meeting", "links", "signed", "life",
          "account", "logins", "roles", "tenants", "questions"}

PartsInit ==
  /\ part \in Parts
  /\ Init /\ Fil!Init /\ Fac!Init /\ Tok!Init /\ Tok!MailInit /\ Rol!Init
  /\ Ten!Init /\ (part # "tenants" => db.policy = {})
  /\ IF part = "questions" THEN question \in TrailQuestions \union CalendarQuestions \union ArchiveQuestions \union PrintQuestions
     ELSE question = [kind |-> "none"]
  /\ Acc!Init /\ Lin!Init /\ Cal!Init
  /\ part # "files" => product = [accepts |-> TRUE, seals |-> TRUE]
  /\ IF part = "life" THEN Life!Init
     ELSE table = {} /\ state = "none" /\ moves = <<>> /\ work = [step |-> "idle"]

FlowNext == part = "flow" /\ Next
  /\ UNCHANGED <<part, fileVars, factorVars, sessionVars, mailVars, calendarVars, linkVars, lifeVars,
                 accountVars, roleVars, tenantVars, question>>
FilesNext == part = "files" /\ Fil!Next
  /\ UNCHANGED <<part, vars, factorVars, sessionVars, mailVars, calendarVars, linkVars, lifeVars,
                 accountVars, roleVars, tenantVars, question>>
FactorNext == part = "factor" /\ Fac!Next
  /\ UNCHANGED <<part, vars, fileVars, sessionVars, mailVars, calendarVars, linkVars, lifeVars,
                 accountVars, roleVars, tenantVars, question>>
SessionsNext == part = "sessions" /\ Tok!Next
  /\ UNCHANGED <<part, vars, fileVars, factorVars, mailVars, calendarVars, linkVars, lifeVars,
                 accountVars, roleVars, tenantVars, question>>
MailNext == part = "mail" /\ Tok!MailNext
  /\ UNCHANGED <<part, vars, fileVars, factorVars, sessionVars, calendarVars, linkVars, lifeVars,
                 accountVars, roleVars, tenantVars, question>>
\* One call after the other, with the copies that takes; and two at once.
CalendarNext ==
  /\ \/ /\ part = "calendar" /\ Cal!Next
        /\ Cardinality({c \in Callers : call'[c] # Cal!Idle}) <= 1
     \/ /\ part = "meeting" /\ Cal!Next
        /\ made' <= 2 /\ calls' <= 2
  /\ UNCHANGED <<part, vars, fileVars, factorVars, sessionVars, mailVars, linkVars, lifeVars,
                 accountVars, roleVars, tenantVars, question>>
\* Links of one kind and of the other: neither reads what is said of the other.
LinksNext ==
  /\ \/ part = "links" /\ Lin!Next /\ signed' = {}
     \/ part = "signed" /\ Lin!Next /\ Lin!Live' = {}
  /\ UNCHANGED <<part, vars, fileVars, factorVars, sessionVars, mailVars, calendarVars, lifeVars,
                 accountVars, roleVars, tenantVars, question>>
LifeNext == part = "life" /\ Life!Next
  /\ UNCHANGED <<part, vars, fileVars, factorVars, sessionVars, mailVars, calendarVars, linkVars,
                 accountVars, roleVars, tenantVars, question>>

\* One login after the other, with its lock and passwords; and logins at once,
\* of one password and for a shorter time.
AccountNext ==
  /\ \/ /\ part = "account" /\ Acc!Next
        /\ Cardinality({l \in Callers : login'[l] # Acc!Idle}) <= 1
     \/ /\ part = "logins" /\ Acc!Next
        /\ meant'.password = 1 /\ accountClock' < MaxClock
  /\ UNCHANGED <<part, vars, fileVars, factorVars, sessionVars, mailVars, calendarVars,
                 linkVars, lifeVars, roleVars, tenantVars, question>>
RolesNext == part = "roles" /\ Rol!Next
  /\ UNCHANGED <<part, vars, fileVars, factorVars, sessionVars, mailVars, calendarVars,
                 linkVars, lifeVars, accountVars, tenantVars, question>>
TenantsNext == part = "tenants" /\ Ten!Next
  /\ UNCHANGED <<part, vars, fileVars, factorVars, sessionVars, mailVars, calendarVars,
                 linkVars, lifeVars, accountVars, roleVars, question>>

PartsNext ==
  \/ FlowNext \/ FilesNext \/ FactorNext \/ SessionsNext \/ MailNext
  \/ CalendarNext \/ LinksNext \/ LifeNext \/ AccountNext \/ RolesNext
  \/ TenantsNext

PartsSpec == PartsInit /\ [][PartsNext]_partsVars

----------------------------------------------------------------------------
\* Every row and every call of the part under way has its type.
Typed ==
  CASE part = "flow" -> TypeOK
    [] part = "files" -> Fil!TypeOK
    [] part = "factor" -> Fac!TypeOK
    [] part = "sessions" -> Tok!TypeOK
    [] part = "mail" -> Tok!MailTyped
    [] part \in {"calendar", "meeting"} -> Cal!TypeOK
    [] part \in {"links", "signed"} -> Lin!TypeOK
    [] part = "life" -> Life!TypeOK
    [] part \in {"account", "logins"} -> Acc!TypeOK
    [] part = "roles" -> Rol!TypeOK
    [] part = "tenants" -> Ten!TypeOK
    [] OTHER -> TRUE

\* files.service.ts: a file that is ready was scanned, and its bytes are the
\* ones scanned (Files); keys.ts, envelope.ts and zip.ts: a key is of one file
\* of one tenant, what was sealed opens to itself or not at all, and so does
\* what was archived; cards.ts and qr.ts: a printed card is whole, and its code
\* stands clear of everything else (Archive).
ReadyIsScannedAndWhole ==
  /\ part = "files" => Fil!ReadyIsScannedAndWhole
  /\ question.kind = "key" => Arc!KeysAreApart(question.one, question.other, question.rules)
  /\ question.kind = "seal" => Arc!SealIsItsOwn(question.sealed, question.opened, {"k", "l"}, {"m", "n"})
  /\ question.kind = "zip" =>
       Arc!ZipIsReadBack(question.entries, question.options, question.ceiling, question.change)
  /\ question.kind = "cards" => Arc!CardsArePrinted(question.cards, question.format)
  /\ question.kind = "code" => Arc!CodeIsDrawn(question.dark, 3)

\* What lets somebody in is what was last said of it, and is spent once.
\* second-factor.service.ts: a code is good once, and wrong ones are counted
\* (SecondFactor); session.service.ts: a token replaced or a session ended opens
\* nothing (AuthTokens); token.service.ts: a mailed token is good for one piece of
\* work; user.service.ts: the password is the one last set and
\* wrong ones lock (Accounts); role.service.ts: the roles held are those given
\* (Roles); repository.ts and rls.ts: a tenant's rows are its own (Tenancy).
AccessIsKept ==
  /\ part = "factor" => Fac!CodesOnceAndCounted
  /\ part = "sessions" => Tok!EndedStaysEnded
  /\ part = "mail" => Tok!SpentOnce
  /\ part \in {"account", "logins"} => Acc!LoginsKeepTheAccount
  /\ part = "roles" => Rol!GrantsAreMeant
  /\ part = "tenants" => Ten!TenantsApart

\* calendars.service.ts: our copies are known to be ours; google.ts and
\* microsoft.ts: what is busy is what they say is, at the moments they say it
\* (CalendarSync).
OneCopyKnown ==
  /\ part \in {"calendar", "meeting"} => Cal!OneCopyKnown
  /\ question.kind = "busy" => Cal!BusyIsTheirs(question.items, {"ours"})
  /\ question.kind = "instant" => Cal!InstantIsRead(question.wall, question.zone)

\* link.service.ts and public-link.service.ts: a link that was replaced lets
\* nobody in (Links); log.ts: the log is the path the subject took, in every
\* lifecycle that machine.ts accepts (TransitionLog); diff.ts and service.ts: the
\* trail says what changed, and is read and purged whole (Tenancy).
WorkflowIsKept ==
  /\ part \in {"links", "signed"} => Lin!ReplacedOpensNothing
  /\ part = "life" => Life!LogIsThePath
  /\ question.kind = "change" =>
       Ten!SaysWhatChanged(question.before, question.after, {"pin"}, {"updatedAt"})
  /\ question.kind = "log" =>
       Ten!TrailIsWhole(question.log, question.size, question.olderThan, question.tenant)
=============================================================================
