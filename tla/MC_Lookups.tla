------------------------------ MODULE MC_Lookups ------------------------------
(***************************************************************************)
(* What is kept of answers from elsewhere, for TLC: the ARP history        *)
(* (Locate), the Windows inventory (WinInventory), the addresses of names  *)
(* (Resolver) and the names of addresses (ReverseNames).  They share no    *)
(* state; a behaviour is one of the four, its scene, while the others rest.*)
(***************************************************************************)
EXTENDS Locate, WinInventory, Resolver, ReverseNames

CONSTANTS mac1, mac2, vdom1, vdom2, name1

VARIABLE scene

lookupVars == <<scene, locateVars, winVars, resolverVars, reverseVars>>

TwoVdoms  == <<vdom1, vdom2>>
ThirdOfIt == [n \in {name1} |-> 2]

\* The rest of the scenes, none of which says or keeps anything.  What stands in a file at
\* first is never compared with other files: one content is as good as another.
Rests(s) ==
    CASE s = "locate"   -> live = [t \in ToSet(Target) |-> Off]
      [] s = "wininv"   -> \A f \in File : share[f].body = CHOOSE b \in Content : TRUE
      [] s = "resolver" -> /\ \A n \in Name : fmg[n] = NoEntry /\ itop[n] = NoEntry
                           /\ \A n \in Name : dns[n] = CHOOSE a \in Addr : TRUE
      [] s = "names"    -> \A h \in Host : ptr[h] = NoName

Init ==
    /\ scene \in {"locate", "wininv", "resolver", "names"}
    /\ LocateInit       /\ (scene # "locate"   => Rests("locate"))
    /\ WinInventoryInit /\ Rests("wininv")
    /\ ResolverInit     /\ (scene # "resolver" => Rests("resolver"))
    /\ ReverseInit      /\ (scene # "names"    => Rests("names"))

Next ==
    \/ /\ scene = "locate" /\ LocateNext
       /\ UNCHANGED <<scene, winVars, resolverVars, reverseVars>>
    \/ /\ scene = "wininv" /\ WinInventoryNext
       /\ UNCHANGED <<scene, locateVars, resolverVars, reverseVars>>
    \/ /\ scene = "resolver" /\ ResolverNext
       /\ UNCHANGED <<scene, locateVars, winVars, reverseVars>>
    \/ /\ scene = "names" /\ ReverseNext
       /\ UNCHANGED <<scene, locateVars, winVars, resolverVars>>

\* The periodic sweep and import are endless loops as long as their settings can be read (an
\* error at their head would end them, see the README), requests begun go on and end, requests
\* come again, and the TTLs run out; hosts, sources and admins need never act.
LocateFairness == WF_locateVars(scene = "locate" /\ SweepStep)
WinInventoryFairness ==
    /\ WF_winVars(scene = "wininv" /\ ImportBegin) /\ WF_winVars(scene = "wininv" /\ ListShare)
    /\ WF_winVars(scene = "wininv" /\ CompareKnown) /\ WF_winVars(scene = "wininv" /\ TaskStep)
    /\ WF_winVars(scene = "wininv" /\ ImportEnds) /\ WF_winVars(scene = "wininv" /\ PurgeStates)
    /\ WF_winVars(scene = "wininv" /\ KeepIndex) /\ WF_winVars(scene = "wininv" /\ ViewAges)
ResolverFairness ==
    /\ \A l \in Loader : WF_resolverVars(scene = "resolver" /\ LoadClass(l))
    /\ WF_resolverVars(scene = "resolver" /\ RefreshLoaded)
    /\ WF_resolverVars(scene = "resolver" /\ SearchLoaded)
    /\ WF_resolverVars(scene = "resolver" /\ AskItop)
    /\ WF_resolverVars(scene = "resolver" /\ AskDns)
    /\ \A n \in Name : WF_resolverVars(scene = "resolver" /\ AnswerAges(n))
    /\ WF_resolverVars(scene = "resolver" /\ IndexAges)
ReverseFairness ==
    /\ \A r \in Reader : WF_reverseVars(scene = "names" /\ (Prime(r) \/ Ask(r) \/ Flush(r)))
    /\ \A h \in Host : WF_reverseVars(scene = "names" /\ RowAges(h))

Spec ==
    /\ Init /\ [][Next]_lookupVars
    /\ LocateFairness /\ WinInventoryFairness /\ ResolverFairness /\ ReverseFairness
===============================================================================
