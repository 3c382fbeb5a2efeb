------------------------------- MODULE Drawings -------------------------------
(***************************************************************************)
(* Where the drawings put their boxes (diagram/drawio.py, services.py,     *)
(* segments.py, vlanphys.py, logical.py, physical.py).  Each measures from *)
(* the inside out - the rows of hosts give the height of a net, the nets   *)
(* the size of their VDOM, and so on - and draws later, in a second pass   *)
(* with offsets of its own.                                                *)
(*                                                                         *)
(* A question describes what is to be drawn by sizes and counts.  A reply  *)
(* is a set of frames [w, h, cells, of, told]: the size the measuring pass *)
(* gave it, the boxes [x, y, w, h] the drawing pass put inside, relative to*)
(* its corner; where a list can be cut short, of is its length and told    *)
(* what the drawing shows of it and counts as "+N weitere".                *)
(***************************************************************************)
EXTENDS Requests, Integers, Sequences, FiniteSets, FiniteSetsExt

CONSTANTS
    HostsPerRow, HostMax,      \* of a segment
    RowsMax,                   \* HOST_MAX_ROWS: hosts of a net
    BlockRows, VmMax,          \* HOST_ROWS_MAX, VM_MAX: rows of a switch
    NetCols, FwsPerRow, SitesPerRow,
    MaxDrawn                   \* MAX_HOSTS_DRAWN: above, one symbol for each class

\* "+N weitere" of a segment is two places wide and begins a row: 48 hosts, six in a row.
ASSUME DrawingAssumption ==
    /\ {NetCols, FwsPerRow, SitesPerRow, HostsPerRow} \subseteq Nat \ {0}
    /\ {HostMax, RowsMax, BlockRows, VmMax, MaxDrawn} \subseteq Nat
    /\ HostsPerRow > 1 /\ HostMax = (HostMax \div HostsPerRow) * HostsPerRow

Box(x, y, w, h) == [x |-> x, y |-> y, w |-> w, h |-> h]
Moved(b, x, y)  == [b EXCEPT !.x = @ + x, !.y = @ + y]
Endless == -1                  \* the size of a page

Elements(s)   == {s[i] : i \in DOMAIN s}
Least(a, b)   == IF a < b THEN a ELSE b
Greater(a, b) == IF a > b THEN a ELSE b
Largest(s, least) == Max({least} \cup Elements(s))
CeilDiv(a, b) == (a + b - 1) \div b

\* Boxes one after the other: where the i-th begins, and the length of all.
From(lens, gap, i) ==
    LET at[k \in 1..Len(lens) + 1] == IF k = 1 THEN 0 ELSE at[k - 1] + lens[k - 1] + gap
    IN  at[i]
Extent(lens, gap)  == IF lens = <<>> THEN 0 ELSE From(lens, gap, Len(lens) + 1) - gap
Total(s)           == From(s, 0, Len(s) + 1)

Frame(w, h, cells)          == [w |-> w, h |-> h, cells |-> cells, of |-> 0, told |-> 0]
List(w, h, cells, of, told) == [w |-> w, h |-> h, cells |-> cells, of |-> of, told |-> told]

\* drawio._pack: row by row, each as high as its highest box.
Pack(sizes, cols, gap) ==
    LET n      == Len(sizes)
        row(i) == (i - 1) \div cols
        widths == [i \in 1..n |-> sizes[i].w]
        begin(r) == From(widths, gap, r * cols + 1)
        end(r)   == From(widths, gap, Least(n, (r + 1) * cols) + 1) - gap
        wide == [r \in 1..CeilDiv(n, cols) |-> end(r - 1) - begin(r - 1)]
        high == [r \in 1..CeilDiv(n, cols) |->
                   Max({0} \cup {sizes[i].h : i \in {k \in 1..n : row(k) = r - 1}})]
    IN  [pos |-> [i \in 1..n |-> [x |-> From(widths, gap, i) - begin(row(i)),
                                  y |-> From(high, gap, row(i) + 1)]],
         w |-> Largest(wide, 0), h |-> Extent(high, gap)]

At(sizes, pos, dx, dy) ==
    [i \in DOMAIN sizes |-> Box(dx + pos[i].x, dy + pos[i].y, sizes[i].w, sizes[i].h)]

----------------------------------------------------------------------------
(* A net with its hosts (drawio._net_height, the rows of _draw_vdom and _draw_family) *)

NetW == 240
NetHead == 48
NetH(hosts) ==
    LET rows == Least(hosts, RowsMax) + (IF hosts > RowsMax THEN 1 ELSE 0)
    IN  NetHead + (IF rows = 0 THEN 6 ELSE rows * 34 + 8)
NetSize(hosts) == [w |-> NetW, h |-> NetH(hosts)]
NetFrame(hosts) ==
    LET shown == Least(hosts, RowsMax)
        more  == IF hosts > RowsMax THEN 1 ELSE 0
    IN  List(NetW, NetH(hosts), [i \in 1..(shown + more) |-> Box(6, NetHead + 4 + (i - 1) * 34 + 1, NetW - 12, 28)],
             hosts, shown + (IF more = 1 THEN hosts - RowsMax ELSE 0))

----------------------------------------------------------------------------
(* The structure plan (drawio.py): question.sites, a sequence of [named, devices];     *)
(* a device: [vdoms, switches]; a VDOM: [ups, nets]: nets, the numbers of hosts.       *)

\* A net with hosts starts closed; what is in it is not to be seen then.
Shut(q, hosts) == q.collapse /\ hosts > 0
UplinkH(ups) == IF ups = 0 THEN 0 ELSE 18 + (Least(ups, 6) + (IF ups > 6 THEN 1 ELSE 0)) * 15 + 8
VdomTop(vd) == 30 + 12 + (IF vd.ups = 0 THEN 0 ELSE UplinkH(vd.ups) + 12)
NetHs(q, vd) == [i \in DOMAIN vd.nets |-> IF Shut(q, vd.nets[i]) THEN NetHead ELSE NetH(vd.nets[i])]

\* _measure_vdom
VdomW(vd) == IF vd.nets = <<>> /\ vd.ups = 0 THEN 200 ELSE NetW + 24
VdomH(q, vd) ==
    IF vd.nets # <<>> THEN VdomTop(vd) + Extent(NetHs(q, vd), 12) + 12
    ELSE IF vd.ups = 0 THEN 54 ELSE VdomTop(vd)
VdomFrame(q, vd, h) ==
    Frame(VdomW(vd), h,
      (IF vd.ups = 0 THEN <<>> ELSE <<Box(12, 42, NetW, UplinkH(vd.ups) - 8)>>)
      \o [i \in DOMAIN vd.nets |-> Box(12, VdomTop(vd) + From(NetHs(q, vd), 12, i), NetW, NetHs(q, vd)[i])])

\* _measure_device: the VDOMs of a device in one row, as high as the highest.
InnerH(q, d) == Largest([i \in DOMAIN d.vdoms |-> VdomH(q, d.vdoms[i])], 54)
VdomWs(d) == [i \in DOMAIN d.vdoms |-> VdomW(d.vdoms[i])]
DeviceW(d) == Greater(24 + Extent(VdomWs(d), 24) + 24, 248)
DeviceH(q, d) == 34 + 24 + InnerH(q, d) + 24
DeviceFrame(q, d) ==
    Frame(DeviceW(d), DeviceH(q, d),
      [i \in DOMAIN d.vdoms |-> Box(24 + From(VdomWs(d), 24, i), 58, VdomWs(d)[i], InnerH(q, d))])
Footprint(q, d) ==
    [w |-> DeviceW(d) + (IF d.switches > 0 THEN 96 ELSE 0), h |-> 34 + DeviceH(q, d)]
\* The symbol, the container and the switches beside it.  Their column is not measured:
\* it may be longer than the device is high, so that the frame has a width only.
FootprintFrame(q, d) ==
    Frame(Footprint(q, d).w, Endless,
      <<Box(0, 0, 202, 28), Box(0, 34, DeviceW(d), DeviceH(q, d))>>
      \o [i \in 1..d.switches |-> Box(DeviceW(d) + 24, 34 + (i - 1) * 76, 72, 40)])

\* _measure_site, and the page of render.
SitePack(q, g) == Pack([i \in DOMAIN g.devices |-> Footprint(q, g.devices[i])], FwsPerRow, 24)
SiteSize(q, g) == IF g.named THEN [w |-> SitePack(q, g).w + 48, h |-> 60 + SitePack(q, g).h + 24]
                  ELSE [w |-> SitePack(q, g).w, h |-> SitePack(q, g).h]
SiteFrame(q, g) ==
    Frame(SiteSize(q, g).w, SiteSize(q, g).h,
      At([i \in DOMAIN g.devices |-> Footprint(q, g.devices[i])], SitePack(q, g).pos,
         IF g.named THEN 24 ELSE 0, IF g.named THEN 60 ELSE 0))
TitleW == 1000
TitleH == 208
StructurePage(q) ==
    LET sizes == [i \in DOMAIN q.sites |-> SiteSize(q, q.sites[i])]
        pack  == Pack(sizes, SitesPerRow, 24)
    IN  Frame(Endless, Endless, At(sizes, pack.pos, 40, 40)
                          \o <<Box(40 + pack.w + 48, Greater(40, 40 + pack.h - TitleH), TitleW, TitleH)>>)

Structure(q) ==
    LET devices == UNION {Elements(g.devices) : g \in Elements(q.sites)}
        nets    == UNION {UNION {Elements(v.nets) : v \in Elements(d.vdoms)} : d \in devices}
    IN  {StructurePage(q)} \cup {SiteFrame(q, g) : g \in Elements(q.sites)}
        \cup {FootprintFrame(q, d) : d \in devices} \cup {DeviceFrame(q, d) : d \in devices}
        \cup (UNION {{VdomFrame(q, v, InnerH(q, d)) : v \in Elements(d.vdoms)} : d \in devices})
        \cup {NetFrame(n) : n \in {k \in nets : ~Shut(q, k)}}

----------------------------------------------------------------------------
(* The services of a family (services.py): question.services, a sequence of [nets,     *)
(* lines]: nets, a sequence of [fw, hosts]; lines of the list of CIs without a net;    *)
(* question.fws: how many firewalls have a column (0: the nets are packed).            *)

\* _column_pack: a column for each firewall, empty ones keep their place.
ColumnPack(q, nets) ==
    LET under(c) == [i \in DOMAIN nets |-> IF nets[i].fw = c THEN NetH(nets[i].hosts) + 24 ELSE 0]
    IN  [pos |-> [i \in DOMAIN nets |->
                    [x |-> (nets[i].fw - 1) * (NetW + 24), y |-> From(under(nets[i].fw), 0, i)]],
         w |-> q.fws * (NetW + 24) - 24,
         h |-> IF nets = <<>> THEN 0 ELSE Max({Total(under(c)) : c \in 1..q.fws}) - 24]
NetPack(q, nets) ==
    IF q.fws > 0 THEN ColumnPack(q, nets)
    ELSE Pack([i \in DOMAIN nets |-> NetSize(nets[i].hosts)], NetCols, 24)

\* _measure_service, with _unplaced_height
ListH(svc) == IF svc.lines = 0 THEN 0 ELSE svc.lines * 14 + 12
ServiceH(q, svc) ==
    32 + 48 + (IF svc.nets = <<>> THEN 44 + ListH(svc)
               ELSE NetPack(q, svc.nets).h + (IF svc.lines = 0 THEN 0 ELSE ListH(svc) + 24))
ServiceW(q, svc) ==
    48 + (IF svc.nets = <<>> THEN Greater(NetPack(q, svc.nets).w, 480) ELSE NetPack(q, svc.nets).w)
\* _draw_family: the list stands under the lowest net.
ServiceFrame(q, svc, w) ==
    LET pack == NetPack(q, svc.nets)
        nets == At([i \in DOMAIN svc.nets |-> NetSize(svc.nets[i].hosts)], pack.pos, 24, 56)
        bottom == Largest([i \in DOMAIN nets |-> nets[i].y + nets[i].h], 56)
    IN  Frame(w, ServiceH(q, svc),
          IF svc.nets = <<>> THEN <<Box(24, 40, ServiceW(q, svc) - 48, ServiceH(q, svc) - 48)>>
          ELSE nets \o (IF svc.lines = 0 THEN <<>> ELSE <<Box(24, bottom + 12, NetW, ListH(svc))>>))

Family(q) ==
    LET hs    == [i \in DOMAIN q.services |-> ServiceH(q, q.services[i])]
        inner == Largest([i \in DOMAIN q.services |-> ServiceW(q, q.services[i])], 480)
        band  == IF q.fws = 0 THEN 0 ELSE 12 + 64 + 24
        h     == 40 + band + Total(hs) + 24 * Len(hs) + 24
        lx    == 40 + inner + 48 + 48
    IN  {Frame(Endless, Endless, <<Box(40, 40, inner + 48, h), Box(lx, 40, 320, 110),
                             Box(lx, Greater(40 + 110 + 24, 40 + h - TitleH), TitleW, TitleH)>>),
         Frame(inner + 48, h,
               [i \in 1..q.fws |-> Box(48 + (i - 1) * (NetW + 24), 52, NetW, 64)]
               \o [i \in DOMAIN hs |-> Box(24, 40 + band + From(hs, 24, i), inner, hs[i])])}
        \cup {ServiceFrame(q, s, inner) : s \in Elements(q.services)}
        \cup {NetFrame(n.hosts) : n \in UNION {Elements(s.nets) : s \in Elements(q.services)}}

----------------------------------------------------------------------------
(* The segments of a service (segments.py): question.sites, a sequence of [segments,   *)
(* firewalls]; a segment is the sequence of its hosts' services, numbers in the order  *)
(* of the names; question.tagged: boxes for the services of a family.  A firewall:     *)
(* [vdoms, router]: how many VDOMs with segments beside the router VDOM.               *)

SlotW == 120
RowH  == 84
SlotAt(k) ==
    LET row == (k - 1) \div HostsPerRow
    IN  [x |-> (k - 1 - row * HostsPerRow) * SlotW, y |-> row * RowH]

\* Mutant: the first shelf that has any room, though the group is wider.
PutM(acc, n) ==
    LET w    == Least(n, HostsPerRow)
        room == {i \in DOMAIN acc.free : acc.free[i] > 0}
        s    == IF room = {} THEN Len(acc.free) + 1 ELSE Min(room)
        free == IF room = {} THEN Append(acc.free, HostsPerRow) ELSE acc.free
    IN  [free |-> [free EXCEPT ![s] = @ - w],
         on   |-> Append(acc.on, [shelf |-> s, col |-> HostsPerRow - free[s], n |-> n])]
\* _layout, first part: each group goes on the first shelf with room for it; free, what
\* is left of each shelf; on, where the groups are [shelf, col, n].
Put(acc, n) ==
    LET w    == Least(n, HostsPerRow)
        room == {i \in DOMAIN acc.free : acc.free[i] >= w}
        s    == IF room = {} THEN Len(acc.free) + 1 ELSE Min(room)
        free == IF room = {} THEN Append(acc.free, HostsPerRow) ELSE acc.free
    IN  [free |-> [free EXCEPT ![s] = @ - w],
         on   |-> Append(acc.on, [shelf |-> s, col |-> HostsPerRow - free[s], n |-> n])]
\* _groups: the hosts of one service, service by service.
GroupOf(shown, tag) == Cardinality({k \in DOMAIN shown : shown[k] = tag})
Shelved(shown) ==
    LET last == Largest(shown, 0)
        put[tag \in 0..last] ==
          IF tag = 0 THEN [free |-> <<>>, on |-> <<>>]
          ELSE IF GroupOf(shown, tag) = 0 THEN put[tag - 1]
          ELSE Put(put[tag - 1], GroupOf(shown, tag))
    IN  put[last]

\* _layout, second part: a shelf is as high as its highest group.
TagH(g) == 18 + CeilDiv(g.n, HostsPerRow) * RowH
ShelfHs(plan) ==
    [s \in DOMAIN plan.free |->
        Max({0} \cup {TagH(g) : g \in {k \in Elements(plan.on) : k.shelf = s}})]
OnShelves(on, high) ==
    LET box(g) == Box(g.col * SlotW + 3, From(high, 8, g.shelf), Least(g.n, HostsPerRow) * SlotW - 6, TagH(g))
        \* The outline of a host, 4 above its symbol.
        slots(g) == [k \in 1..g.n |-> Box(SlotAt(k).x + 5, 18 + SlotAt(k).y + 2, SlotW - 16, RowH - 17)]
    IN  [h |-> Extent(high, 8), cells |-> [i \in DOMAIN on |-> box(on[i])],
         groups |-> {Frame(box(on[i]).w, box(on[i]).h, slots(on[i])) : i \in DOMAIN on},
         moreAt |-> [x |-> 0, y |-> Extent(high, 8) + 4]]
Layout(hosts, tagged) ==
    LET shown == SubSeq(hosts, 1, Least(Len(hosts), HostMax))
        plan  == Shelved(shown)
    IN  IF tagged /\ hosts # <<>> THEN OnShelves(plan.on, ShelfHs(plan))
        ELSE [h |-> CeilDiv(Len(shown), HostsPerRow) * RowH,
              cells |-> [k \in DOMAIN shown |-> Box(SlotAt(k).x + 8, SlotAt(k).y - 4, SlotW - 16, RowH - 8)],
              groups |-> {}, moreAt |-> SlotAt(Len(shown) + 1)]

\* _seg_height; the gap of 22 below the segment belongs to it.
SegmentH(hosts, tagged) ==
    IF hosts = <<>> THEN 48
    ELSE 52 + Layout(hosts, tagged).h + (IF Len(hosts) > HostMax THEN 30 ELSE 0)
SegmentFrames(hosts, tagged) ==
    LET lay  == Layout(hosts, tagged)
        more == Len(hosts) > HostMax
    IN  {List(HostsPerRow * SlotW, SegmentH(hosts, tagged) + 22,
              <<Box(0, 10, HostsPerRow * SlotW, 26)>> \o [i \in DOMAIN lay.cells |-> Moved(lay.cells[i], 0, 52)]
              \o (IF more THEN <<Box(lay.moreAt.x + 8, 52 + lay.moreAt.y, 2 * SlotW - 8, 30)>> ELSE <<>>),
              Len(hosts), Least(Len(hosts), HostMax) + (IF more THEN Len(hosts) - HostMax ELSE 0))}
        \cup lay.groups

\* _fw_size, and the pills of _draw_site
FwRows(fw) == (IF fw.vdoms > 0 THEN 1 ELSE 0) + (IF fw.router THEN 1 ELSE 0)
FwSize(fw) == [w |-> 104 + Greater(1, fw.vdoms) * 144, h |-> Greater(14 + FwRows(fw) * 30 + (FwRows(fw) - 1) * 34 + 14, 102)]
FwFrame(fw, down) ==
    LET vdoms == [i \in 1..fw.vdoms |-> Box(104 + (i - 1) * 144, IF down \/ ~fw.router THEN 14 ELSE 78, 130, 30)]
        router == IF fw.router THEN <<Box(104, IF down /\ fw.vdoms > 0 THEN 78 ELSE 14, 130, 30)>> ELSE <<>>
    IN  Frame(FwSize(fw).w, FwSize(fw).h, <<Box(25, 8, 46, 46), Box(4, 56, 96, FwSize(fw).h - 60)>> \o vdoms \o router)

\* _Site and _draw_site: firewalls on the side of the cloud.
Lane(s) == 24 + 10 * Len(s.segments)
SegHs(s, tagged) == [i \in DOMAIN s.segments |-> SegmentH(s.segments[i], tagged)]
FwWs(s) == [i \in DOMAIN s.firewalls |-> FwSize(s.firewalls[i]).w]
FwsH(s) == Largest([i \in DOMAIN s.firewalls |-> FwSize(s.firewalls[i]).h], 0)
Turn(s) == 24 + 6 * Len(s.segments)
SegSiteSize(s, tagged) ==
    [w |-> Lane(s) + Greater(HostsPerRow * SlotW, Extent(FwWs(s), 14)) + 20,
     h |-> 52 + Extent(SegHs(s, tagged), 22) + Turn(s) + FwsH(s) + 20]
SegSiteFrame(s, size, hs, down) ==
    LET fwY  == IF down THEN 52 + Extent(hs, 22) + Turn(s) ELSE 52
        segY == IF down THEN 52 ELSE 52 + FwsH(s) + Turn(s)
        off(fw) == IF down THEN 0 ELSE FwsH(s) - FwSize(fw).h
    IN  Frame(size.w, size.h,
          [i \in DOMAIN s.firewalls |-> Box(Lane(s) + From(FwWs(s), 14, i), fwY + off(s.firewalls[i]),
                                            FwWs(s)[i], FwSize(s.firewalls[i]).h)]
          \o [i \in DOMAIN s.segments |-> Box(Lane(s), segY + From(hs, 22, i), HostsPerRow * SlotW, hs[i])])

\* render: half of the sites above the cloud, the others mirrored below it.
RowW(r)  == Extent([i \in DOMAIN r |-> r[i].w], 70)
SitesPage(top, bottom, width) ==
    LET topH   == Largest([i \in DOMAIN top |-> top[i].h], 0)
        x(r, i) == 40 + (width - RowW(r)) \div 2 + From([k \in DOMAIN r |-> r[k].w], 70, i)
        cloudY == 40 + topH + 90
        lx     == 40 + width + 140
    IN  Frame(Endless, Endless,
          [i \in DOMAIN top |-> Box(x(top, i), 40 + topH - top[i].h, top[i].w, top[i].h)]
          \o <<Box(40 + (width - 280) \div 2, cloudY, 280, 120)>>
          \o [i \in DOMAIN bottom |-> Box(x(bottom, i), cloudY + 210, bottom[i].w, bottom[i].h)]
          \o <<Box(lx, 40, 340, 112), Box(lx, 40 + 112 + 35, TitleW, TitleH)>>)
Half(q) == IF Len(q.sites) > 1 THEN CeilDiv(Len(q.sites), 2) ELSE Len(q.sites)
SegmentsPage(q) ==
    LET sizes  == [i \in DOMAIN q.sites |-> SegSiteSize(q.sites[i], q.tagged)]
        top    == SubSeq(sizes, 1, Half(q))
        bottom == SubSeq(sizes, Half(q) + 1, Len(sizes))
    IN  SitesPage(top, bottom, Greater(Greater(RowW(top), RowW(bottom)), 280))
SegmentPages(q) ==
    {SegmentsPage(q)}
    \cup {SegSiteFrame(q.sites[i], SegSiteSize(q.sites[i], q.tagged), SegHs(q.sites[i], q.tagged), i <= Half(q)) :
             i \in DOMAIN q.sites}
    \cup (UNION {{FwFrame(fw, i <= Half(q)) : fw \in Elements(q.sites[i].firewalls)} : i \in DOMAIN q.sites})
    \cup UNION {SegmentFrames(hosts, q.tagged) : hosts \in UNION {Elements(s.segments) : s \in Elements(q.sites)}}
=============================================================================
