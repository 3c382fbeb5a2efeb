-------------------------------- MODULE Sheets --------------------------------
(***************************************************************************)
(* The other drawings: the switches of a VLAN (diagram/vlanphys.py), the   *)
(* logical plan (logical.py) and the LLDP topology (physical.py), and the  *)
(* handler that draws any of them.                                         *)
(***************************************************************************)
EXTENDS Drawings

----------------------------------------------------------------------------
(* Switches of a VLAN: question.switches, a sequence of [level, lines, rows, groups,   *)
(* unknown]: level 0, no way to the firewall; lines of the name; rows, hosts at access *)
(* ports; groups, the numbers of VMs at ports of hypervisors; unplaced, tags: counts.  *)

\* _group_h, _block_h
ShownHosts(n, most) == Least(n, most) + (IF n > most THEN 1 ELSE 0)
GroupH(vms) == 19 + ShownHosts(vms, VmMax) * 14 + 6
GroupHs(sw) == [i \in DOMAIN sw.groups |-> GroupH(sw.groups[i])]
BlockH(sw) ==
    Largest(<<10 + ShownHosts(sw.rows, BlockRows) * 17 + Total(GroupHs(sw)) + (IF sw.unknown THEN 17 ELSE 0) + 10,
              54 + sw.lines * 13>>, 52)
\* _draw_hosts
BlockFrames(sw) ==
    LET rows == ShownHosts(sw.rows, BlockRows)
        below == 10 + rows * 17
    IN  {List(300, BlockH(sw),
              <<Box(26, 8, 44, 32), Box(4, 44, 92, sw.lines * 13 + 4)>>
              \o [i \in 1..rows |-> Box(108, 10 + (i - 1) * 17, 190, 17)]
              \o [i \in DOMAIN sw.groups |-> Box(108, below + From(GroupHs(sw), 0, i), 190, GroupHs(sw)[i])]
              \o (IF sw.unknown THEN <<Box(108, below + Total(GroupHs(sw)), 190, 17)>> ELSE <<>>),
              sw.rows, Least(sw.rows, BlockRows) + (IF sw.rows > BlockRows THEN sw.rows - BlockRows ELSE 0))}
        \cup {List(190, GroupH(n), [i \in 1..ShownHosts(n, VmMax) |-> Box(20, 19 + (i - 1) * 14, 170, 14)],
                   n, Least(n, VmMax) + (IF n > VmMax THEN n - VmMax ELSE 0)) : n \in Elements(sw.groups)}

\* _levels: a switch without a way to the firewall stands in the first row.
LevelOf(sw) == IF sw.level = 0 THEN 1 ELSE sw.level
InLevel(q, l) == [i \in DOMAIN q.switches |-> IF LevelOf(q.switches[i]) = l THEN 1 ELSE 0]
LevelH(q, l) ==
    LET blocks == {BlockH(sw) : sw \in {s \in Elements(q.switches) : LevelOf(s) = l}}
    IN  IF blocks = {} THEN 0 ELSE Max(blocks) + 80

\* _draw_page
VlanPage(q) ==
    LET levels == 1..Max({1} \cup {LevelOf(sw) : sw \in Elements(q.switches)})
        rowW(l) == Total(InLevel(q, l)) * 340 - 40
        width  == Largest([l \in levels |-> rowW(l)], 530 + 200 + 80)
        fx     == 40 + (width - 530) \div 2
        high   == [l \in levels |-> LevelH(q, l)]
        block(sw, i) ==
          LET l == LevelOf(sw)
          IN  Box(40 + (width - rowW(l)) \div 2 + From(InLevel(q, l), 0, i) * 340,
                  338 + From(high, 0, l), 300, BlockH(sw))
        tagsH  == IF q.tags = 0 THEN 0 ELSE 14 * (q.tags + 1)
        below  == 40 + 180 + tagsH
        named  == Least(q.unplaced, 40)
        lx     == 40 + width + 60
    IN  Frame(Endless, Endless,
          <<Box(fx + 350, 40, 200, 90), Box(fx, 180, 530, 78)>>
          \o <<Box(lx, 40, 360, 150 + tagsH),
               Box(lx, below + (IF q.unplaced = 0 THEN 0 ELSE 30 + (named + 3) * 12 + 20), TitleW, TitleH)>>
          \o (IF q.unplaced = 0 THEN <<>>
              ELSE <<Box(lx, below, 360, 30 + (1 + ShownHosts(q.unplaced, 40)) * 12)>>)
          \o [i \in DOMAIN q.switches |-> block(q.switches[i], i)])
VlanSheet(q) == {VlanPage(q)} \cup UNION {BlockFrames(sw) : sw \in Elements(q.switches)}

----------------------------------------------------------------------------
(* The logical plan: question.vdoms, a sequence of sequences of nets; a net is the     *)
(* sequence of the classes of its hosts.                                               *)

Drawn(net)    == {i \in DOMAIN net : net[i] # "switch"}
Classes(net)  == {net[i] : i \in Drawn(net)}
Count(net, c) == Cardinality({i \in DOMAIN net : net[i] = c})

\* networks_with_hosts: nets without a device are left out, unless all would be.
Filled(q) == \E nets \in Elements(q.vdoms) : \E net \in Elements(nets) : Drawn(net) # {}
Bands(q, nets) == {i \in DOMAIN nets : Filled(q) => Drawn(nets[i]) # {}}

\* _group: above MAX_HOSTS_DRAWN one symbol for each class, with its number.
Grouped(net) == Cardinality(Drawn(net)) > MaxDrawn
CellsOf(net) == IF Grouped(net) THEN Cardinality(Classes(net)) ELSE Cardinality(Drawn(net))
\* render takes a number of one for a host and asks the name of the class for its own.
Fails(net) == Grouped(net) /\ \E c \in Classes(net) : Count(net, c) = 1

BarW(net) == Greater(CellsOf(net) * 136 + 24, 420)
BandW(nets) == Max({4} \cup {Cardinality(Drawn(net)) : net \in Elements(nets)}) * 136 + 250 + 96
\* Hosts in two heights above their bar, the name of the net beside it.
NetRow(nets, net) ==
    List(BandW(nets), 180,
         [k \in 1..CellsOf(net) |->
            LET hy == IF k % 2 = 1 THEN 0 ELSE 60
            IN  IF Grouped(net) THEN Box(24 + (k - 1) * 136 + 6, hy, 120, 46)
                ELSE Box(24 + (k - 1) * 136, hy, 136, 46)]
         \o <<Box(24, 122, BarW(net), 14), Box(24 + BarW(net) + 8, 110, 250, 40)>>,
         Len(net), (IF Grouped(net) THEN Count(net, "pc") + Count(net, "server") ELSE CellsOf(net))
                   + Count(net, "switch"))
\* The bands of the VDOMs: a row for each net; one that is left out takes no height.
RowHs(q, nets) == [i \in DOMAIN nets |-> IF i \in Bands(q, nets) THEN 180 ELSE 0]
BandH(q, nets) == 34 + 24 + Greater(180, Total(RowHs(q, nets)))
BandFrame(q, nets) ==
    Frame(BandW(nets), BandH(q, nets),
          [i \in Bands(q, nets) |-> Box(0, 58 + From(RowHs(q, nets), 0, i), BandW(nets), 180)])

BandsShown(q) == {v \in DOMAIN q.vdoms : Bands(q, q.vdoms[v]) # {}}
BandHs(q) == [v \in DOMAIN q.vdoms |-> IF v \in BandsShown(q) THEN BandH(q, q.vdoms[v]) + 24 ELSE 0]
\* The band of a VDOM and the firewall beside it, 56 to the left of where the bands begin.
LogicalPage(q) ==
    Frame(Endless, Endless,
          [p \in BandsShown(q) \X {"band", "firewall"} |->
             LET y == 40 + From(BandHs(q), 0, p[1])
             IN  IF p[2] = "band" THEN Box(56 + 40, y, BandW(q.vdoms[p[1]]), BandH(q, q.vdoms[p[1]]))
                 ELSE Box(0, y + 42, 56, 40)])
\* The title block stands 1200 to the right of the left edge, however wide the bands are.
LogicalTitle(q) == Box(40 + 1200, Greater(40, 40 + Total(BandHs(q)) - TitleH), TitleW, TitleH)
Logical(q) ==
    {LogicalPage(q)} \cup {BandFrame(q, q.vdoms[v]) : v \in BandsShown(q)}
    \cup UNION {{NetRow(q.vdoms[v], q.vdoms[v][i]) : i \in Bands(q, q.vdoms[v])} : v \in BandsShown(q)}

----------------------------------------------------------------------------
(* The LLDP topology: question.links, a set of pairs of devices, numbers in the order  *)
(* of their ids; known, the devices of the place and group that was asked for.         *)

\* infra_model: links between two known devices; a device without one is not drawn.
InfraEdges(q) == {{ln[1], ln[2]} : ln \in {k \in q.links : k[1] # k[2] /\ {k[1], k[2]} \subseteq q.known}}
Nodes(q) == UNION InfraEdges(q)
Adjacent(q, n) == (UNION {e \in InfraEdges(q) : n \in e}) \ {n}

\* _layers: breadth first from the best connected device; other islands go beside it.
\* at, the place of each device: its row and how many are before it there.
InRow(at, row) == {n \in DOMAIN at : at[n].row = row}
AddRow(at, level, row) ==
    [n \in DOMAIN at \cup level |->
       IF n \in DOMAIN at THEN at[n]
       ELSE [row |-> row, col |-> Cardinality(InRow(at, row)) + Cardinality({m \in level : m < n})]]
Root(q, rest) ==
    LET degree(n) == Cardinality(Adjacent(q, n))
    IN  CHOOSE n \in rest : \A m \in rest : degree(n) > degree(m) \/ (degree(n) = degree(m) /\ n >= m)
NextLevel(q, st) ==
    LET next == (UNION {Adjacent(q, n) : n \in st.level}) \ st.seen
        rest == Nodes(q) \ st.seen
    IN  IF st.level # {}
        THEN [seen |-> st.seen \cup next, level |-> next, row |-> st.row + 1,
              at |-> AddRow(st.at, st.level, st.row)]
        ELSE IF rest # {}
        THEN [st EXCEPT !.seen = @ \cup {Root(q, rest)}, !.level = {Root(q, rest)}, !.row = 1]
        ELSE st
Layers(q) ==
    LET rounds == 2 * Cardinality(Nodes(q))
        run[k \in 0..rounds] == IF k = 0 THEN [seen |-> {}, level |-> {}, row |-> 1, at |-> <<>>]
                                ELSE NextLevel(q, run[k - 1])
    IN  run[rounds].at

\* render_infra; 0 stands for the title block.
InfraPage(q) ==
    LET at       == Layers(q)
        spanOf(row) == Cardinality(InRow(at, row)) * 200
        width    == Max({200} \cup {spanOf(at[n].row) : n \in DOMAIN at})
        bottom   == 60 + Max({1} \cup {at[n].row : n \in DOMAIN at}) * 190
        node(p)  == Box(40 + (width - spanOf(p.row)) \div 2 + p.col * 200 + 64, 60 + (p.row - 1) * 190, 72, 40)
    IN  List(Endless, Endless,
             [n \in DOMAIN at \cup {0} |->
                IF n # 0 THEN node(at[n])
                ELSE Box(40 + width + 400, Greater(60, bottom - TitleH), TitleW, TitleH)],
             Cardinality(Nodes(q)), Cardinality(DOMAIN at))

----------------------------------------------------------------------------

Drawing(frames) == Give([kind |-> "drawing", failed |-> FALSE, frames |-> frames])
DrawStructure == Pending("structure") /\ Drawing(Structure(asked))
DrawFamily    == Pending("family") /\ Drawing(Family(asked))
DrawSegments  == Pending("segmentpage") /\ Drawing(SegmentPages(asked))
DrawVlan      == Pending("vlanpage") /\ Drawing(VlanSheet(asked))
DrawInfra     == Pending("infra") /\ Drawing({InfraPage(asked)})
DrawLogical ==
    /\ Pending("logical")
    /\ LET shown == UNION {{asked.vdoms[v][i] : i \in Bands(asked, asked.vdoms[v])} : v \in BandsShown(asked)}
       IN  IF \E net \in shown : Fails(net) THEN Give([kind |-> "drawing", failed |-> TRUE, frames |-> {}])
           ELSE Give([kind |-> "drawing", failed |-> FALSE, title |-> LogicalTitle(asked),
                      frames |-> Logical(asked)])

SheetsNext == DrawStructure \/ DrawFamily \/ DrawSegments \/ DrawVlan \/ DrawInfra \/ DrawLogical

----------------------------------------------------------------------------
(* Properties *)

InFrame(b, f) ==
    b.x >= 0 /\ b.y >= 0 /\ (f.w # Endless => b.x + b.w <= f.w) /\ (f.h # Endless => b.y + b.h <= f.h)
Apart(a, b)   == a.x + a.w <= b.x \/ b.x + b.w <= a.x \/ a.y + a.h <= b.y \/ b.y + b.h <= a.y

\* The measuring pass and the drawing pass agree: every box lies inside the one it
\* belongs to, no two boxes cover each other, and a list that is cut short names as many
\* as it leaves out - in every drawing, the title block of the logical plan and the
\* columns of switches set aside (drawio._measure_*, _draw_*; services._measure_service,
\* _draw_family; segments._layout, _Site, _draw_site, render; vlanphys._block_h,
\* _draw_hosts, _draw_page; logical.render; physical._layers, render_infra).
DrawnApart ==
    reply.kind = "drawing" =>
      \A f \in reply.frames :
        /\ f.of = f.told
        /\ \A i \in DOMAIN f.cells :
             /\ InFrame(f.cells[i], f)
             /\ \A j \in DOMAIN f.cells : i # j => Apart(f.cells[i], f.cells[j])
=============================================================================
