----------------------------- MODULE Utilities ------------------------------
(***************************************************************************)
(* The helpers of the repository as their callers see them, and its small  *)
(* programs, each by itself: processes create paths, threads print         *)
(* messages, a socket is filtered, or a function without a state of its    *)
(* own is called once, with any of its inputs.                             *)
(***************************************************************************)
EXTENDS Paths, MessageFilters, PacketFilter, Strings, Ipv6Addition, RingSize

utilityVars == <<pathVars, messageVars, filterVars, given>>

UtilitiesInit ==
    /\ PathsInit /\ FiltersInit /\ FilterInit
    /\ \/ given = <<"create_path">>
       \/ /\ Dirs = {} /\ \A x \in Path : kind[x] = "none"
          /\ StringsInit \/ AdditionInit \/ SizeInit \/ given \in {<<"messages">>, <<"bpf_demo">>}

UtilitiesNext ==
    /\ UNCHANGED given
    /\ \/ Given("create_path") /\ PathsNext /\ UNCHANGED <<messageVars, filterVars>>
       \/ Given("messages") /\ FiltersNext /\ UNCHANGED <<pathVars, filterVars>>
       \/ Given("bpf_demo") /\ FilterNext /\ UNCHANGED <<pathVars, messageVars>>

UtilitiesSpec == UtilitiesInit /\ [][UtilitiesNext]_utilityVars
=============================================================================
