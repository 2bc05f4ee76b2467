---------------------------- MODULE MC_Dispatch ----------------------------
(***************************************************************************)
(* Instance of Dispatch for TLC: reports of two known errors and an        *)
(* unknown one, raised again and cleared, around the end and the start of  *)
(* quiet hours that do or do not wrap past midnight.                       *)
(***************************************************************************)
EXTENDS Dispatch, MC_Environment

Item(code, state, stamp) == [code |-> code, state |-> state, stamp |-> stamp]

MCReports ==
    {<<>>, <<Item("DC", "Created", 1)>>,
     <<Item("4C", "Created", 1)>>, <<Item(Null, "Created", 1)>>,
     <<Item(Null, "Deleted", 1)>>}

MCOthers == {"offline", "startup"}

MCContents ==
    UNION {{Key(ev) : ev \in ToSet(AlarmEvs([alarms |-> was], [alarms |-> is]))} :
              was \in MCReports, is \in MCReports}

\* The clock starts at 23:58.
MCEnvironments ==
    {Basic @@ env :
        env \in {Selected(<<"alarm", "alarm_cleared">>),
                 Selected(<<"alarm", "offline">>)
                    @@ Var("", "QUIET_HOURS", Hours(23, 59, 0, 1))
                    @@ Var("", "EVENT_PRIORITIES", Pairs(<<Pair("offline", 0), Pair("offline", 1)>>)),
                 Selected(<<"startup">>)
                    @@ Var("", "QUIET_HOURS", Hours(24, 0, 23, 59))
                    @@ Var("PUSHOVER", "PRIORITY", Number(-2)),
                 Selected(<<"alarm_cleared", "offline">>)
                    @@ Var("", "QUIET_HOURS", Hours(23, 58, 24, 0))
                    @@ Var("", "QUIET_PRIORITY", Number(-2)),
                 Var("", "EVENTS", Word("all"))
                    @@ Var("", "EVENT_PRIORITIES", Pairs(<<Pair("alarm", 2)>>))}}
=============================================================================
