---------------------------- MODULE MCHshaServer ----------------------------
(* Small configuration files for HshaServer. *)
EXTENDS HshaServer

Blank == Item("none", 0)

MCRequired == {"BindIP"}

\* The one file whose address can be bound.
Bindable ==
    <<Blank, Header("Server"), Item("BindIP", 1), Item("MaxThreads", 1),
      Item("IOThreadCount", 1), Item("FastRejectThresholdMS", 0),
      Item("FastRejectAdjustRate", 2)>>

Lines ==
    {Header("Server"), Header("Log"), Item("BindIP", 0), LongerItem("MaxThreads"),
     BareItem("MaxThreads")}
    \cup {Item("MaxThreads", n) : n \in {-1, 0, 5}}
    \cup {Item("IOThreadCount", n) : n \in {-1, 0, 2, 8}}

Starts == {<<Blank, Header("Server")>>, <<Header("Server")>>, <<Blank, Header("Log"), Blank>>}

MCFiles == {Bindable} \cup {start \o lines : start \in Starts, lines \in [1..3 -> Lines]}
=============================================================================
