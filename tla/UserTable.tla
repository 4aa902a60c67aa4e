------------------------------ MODULE UserTable ------------------------------
(***************************************************************************)
(* The administrators' user table (UserTable.tsx) and its endpoints.  A    *)
(* toggle sends the status opposite to the one shown, marks the one row    *)
(* that it remembers as busy and writes the answer into the list; a        *)
(* refresh replaces the list.  Search and role filters and texts are left  *)
(* out: they hide rows and nothing else.                                   *)
(***************************************************************************)
EXTENDS Naturals, FiniteSets

CONSTANTS People, Myself,   \* accounts; the administrator's own
          MaxToggles        \* bound: clicks, failures and changes by other administrators

ASSUME UsersAssumption == Myself \in People /\ MaxToggles \in Nat

VARIABLES
    activeUsers,              \* the API: User.is_active
    listedUsers, listedActive,\* rows of the table, and which are shown as active
    usersLoading, usersError,
    statusFilter,
    actionLoadingId,
    userReads, toggles,       \* requests under way
    toggleActs,
    usersMuddled              \* history: a request failed, others acted, or requests crossed

usersVars == <<activeUsers, listedUsers, listedActive, usersLoading, usersError, statusFilter,
               actionLoadingId, userReads, toggles, toggleActs, usersMuddled>>

UserFilters == {"ALL", "ACTIVE", "SUSPENDED"}
Unread == [got |-> "nothing", seen |-> {}]

UsersTypeOK ==
    /\ activeUsers \subseteq People /\ listedUsers \in {{}, People} /\ listedActive \subseteq People
    /\ {usersLoading, usersError, usersMuddled} \subseteq BOOLEAN
    /\ statusFilter \in UserFilters /\ actionLoadingId \in People \cup {"none"}
    /\ userReads \subseteq [got : {"nothing", "rows"}, seen : SUBSET People]
    /\ toggles \subseteq [who : People, to : BOOLEAN, n : 1..MaxToggles,
                          got : {"nothing", "ok", "failed"}]
    /\ toggleActs \in 0..MaxToggles

UsersInit ==
    /\ activeUsers \in {s \in SUBSET People : Myself \in s}
    /\ listedUsers = {} /\ listedActive = {}
    /\ usersLoading = TRUE /\ usersError = FALSE /\ statusFilter = "ALL" /\ actionLoadingId = "none"
    /\ userReads = {Unread} /\ toggles = {} /\ toggleActs = 0 /\ usersMuddled = FALSE

ToggleAct == toggleActs < MaxToggles /\ toggleActs' = toggleActs + 1

-----------------------------------------------------------------------------
(* fetchUsers.                                                             *)

\* "Refresh" and "Retry".
ClickRefresh ==
    /\ ~usersLoading /\ ToggleAct
    /\ usersLoading' = TRUE /\ usersError' = FALSE /\ userReads' = {Unread}
    /\ usersMuddled' = (usersMuddled \/ toggles # {})
    /\ UNCHANGED <<activeUsers, listedUsers, listedActive, statusFilter, actionLoadingId,
                   toggles>>

UsersServed(r) ==
    /\ r.got = "nothing"
    /\ userReads' = {[got |-> "rows", seen |-> activeUsers]}
    /\ UNCHANGED <<activeUsers, listedUsers, listedActive, usersLoading, usersError, statusFilter,
                   actionLoadingId, toggles, toggleActs, usersMuddled>>

UsersAnswered(r) ==
    /\ r.got = "rows" /\ userReads' = {} /\ usersLoading' = FALSE
    /\ listedUsers' = People /\ listedActive' = r.seen
    /\ UNCHANGED <<activeUsers, usersError, statusFilter, actionLoadingId, toggles, toggleActs,
                   usersMuddled>>

UsersFailed ==
    /\ userReads # {} /\ ToggleAct /\ userReads' = {}
    /\ usersLoading' = FALSE /\ usersError' = TRUE /\ usersMuddled' = TRUE
    /\ UNCHANGED <<activeUsers, listedUsers, listedActive, statusFilter, actionLoadingId,
                   toggles>>

-----------------------------------------------------------------------------
(* handleToggleStatus.                                                     *)

RowsShown ==
    IF usersLoading \/ usersError THEN {}
    ELSE {u \in listedUsers : CASE statusFilter = "ACTIVE" -> u \in listedActive
                                [] statusFilter = "SUSPENDED" -> u \notin listedActive
                                [] OTHER -> TRUE}

PickStatus(s) ==
    /\ s # statusFilter /\ statusFilter' = s
    /\ UNCHANGED <<activeUsers, listedUsers, listedActive, usersLoading, usersError,
                   actionLoadingId, userReads, toggles, toggleActs, usersMuddled>>

ClickToggle(u) ==
    /\ u \in RowsShown /\ actionLoadingId # u /\ ToggleAct
    /\ actionLoadingId' = u
    /\ toggles' = toggles \cup {[who |-> u, to |-> u \notin listedActive, n |-> toggleActs + 1,
                                 got |-> "nothing"]}
    /\ usersMuddled' = (usersMuddled \/ \E t \in toggles : t.who = u)
    /\ UNCHANGED <<activeUsers, listedUsers, listedActive, usersLoading, usersError, statusFilter,
                   userReads>>

\* update_user_status: nobody suspends himself.
ToggleServed(t) ==
    /\ t.got = "nothing"
    /\ IF t.who = Myself /\ ~t.to
       THEN /\ toggles' = (toggles \ {t}) \cup {[t EXCEPT !.got = "failed"]}
            /\ UNCHANGED <<activeUsers, usersMuddled>>
       ELSE /\ activeUsers' = IF t.to THEN activeUsers \cup {t.who} ELSE activeUsers \ {t.who}
            /\ \E got \in {"ok", "failed"} :
                  /\ toggles' = (toggles \ {t}) \cup {[t EXCEPT !.got = got]}
                  /\ usersMuddled' = (usersMuddled \/ got = "failed" \/ userReads # {})
    /\ UNCHANGED <<listedUsers, listedActive, usersLoading, usersError, statusFilter,
                   actionLoadingId, userReads, toggleActs>>

\* Whichever row is marked as busy by now is freed.
ToggleAnswered(t) ==
    /\ t.got # "nothing" /\ toggles' = toggles \ {t} /\ actionLoadingId' = "none"
    /\ listedActive' = IF t.got = "failed" THEN listedActive
                       ELSE IF t.to THEN listedActive \cup {t.who} ELSE listedActive \ {t.who}
    /\ UNCHANGED <<activeUsers, listedUsers, usersLoading, usersError, statusFilter, userReads,
                   toggleActs, usersMuddled>>

OtherAdmin(u) ==
    /\ ToggleAct /\ u # Myself /\ usersMuddled' = TRUE
    /\ activeUsers' = IF u \in activeUsers THEN activeUsers \ {u} ELSE activeUsers \cup {u}
    /\ UNCHANGED <<listedUsers, listedActive, usersLoading, usersError, statusFilter,
                   actionLoadingId, userReads, toggles>>

-----------------------------------------------------------------------------

UsersStep ==
    \/ \E r \in userReads : UsersServed(r) \/ UsersAnswered(r)
    \/ \E t \in toggles : ToggleServed(t) \/ ToggleAnswered(t)

UsersNext ==
    \/ UsersStep \/ UsersFailed \/ ClickRefresh
    \/ \E s \in UserFilters : PickStatus(s)
    \/ \E u \in People : ClickToggle(u) \/ OtherAdmin(u)

UsersFairness == WF_usersVars(UsersStep)

UsersSpec == UsersInit /\ [][UsersNext]_usersVars

-----------------------------------------------------------------------------

\* At rest the table shows who may sign in as the API has it, unless a request
\* failed, another administrator acted, or two requests about one account or a
\* refresh and a toggle were under way together (UserTable.tsx:426: only the row
\* toggled last is disabled).
UsersCurrent ==
    (userReads = {} /\ toggles = {} /\ ~usersMuddled) =>
        listedActive = activeUsers /\ actionLoadingId = "none"

\* What must not last: the table's spinner and the mark of a row (UserTable.tsx:56).
UsersWaits == usersLoading \/ actionLoadingId # "none"
=============================================================================
