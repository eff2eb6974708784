------------------------------- MODULE MCCms --------------------------------
(* Two editors and a post with two channels; two calendars and two         *)
(* channels; two rooms, two runs of rooms:sync; a start with one demo      *)
(* document.  A payload edits one aspect of a post.  Empty: wrappers that  *)
(* name no document, {set: []}, {connect: []} and {disconnect: [...]}.     *)
EXTENDS Cms, TLC

MCParts == {"posts", "links", "rooms", "boot"}
MCMaxWrites == [posts |-> 4, links |-> 4, rooms |-> 3, boot |-> 2]
MCTimes == 1 .. 2
MCRooms == 1 .. 2
MCDemo == {"campus-news"}

Rel(by, to) == [by |-> by, to |-> to]
Listing(how, add, drop) == [how |-> how, add |-> add, drop |-> drop]
Empty == {Rel("object", None), Rel("object", Keep), Rel("disconnect", None)}
TagEdits == {[NoData EXCEPT !.tag = t] :
                t \in {None, Rel("id", "news"), Rel("id", "event"), Rel("object", "event")}
                      \cup Empty}
Listed == {Listing("list", add, {}) : add \in {{}} \cup {{c} : c \in Channels}}
Dropping(how) == {Listing(how, {}, {c}) : c \in Channels}
ChannelEdits ==
    {[NoData EXCEPT !.primary = Rel("object", p), !.channels = c] :
        p \in Channels,
        c \in {Keep, None} \cup Listed \cup Dropping("change") \cup Dropping("disconnect")}
    \cup {[NoData EXCEPT !.primary = p, !.channels = c] :
             p \in {Keep, None}, c \in {Keep} \cup Listed}
    \cup {[NoData EXCEPT !.primary = p] : p \in Empty}
    \cup {[NoData EXCEPT !.primary = Rel("disconnect", None), !.channels = c] :
             c \in Dropping("disconnect")}
DateEdits == {[NoData EXCEPT !.start = s, !.end = t] :
                s \in Times \cup {Keep, None}, t \in Times \cup {Keep, None}}
MCPayloads == TagEdits \cup {d \in ChannelEdits : d.primary # Keep \/ d.channels # Keep}
                       \cup DateEdits

Symmetry == Permutations(Editors) \cup Permutations(Channels) \cup Permutations(Calendars)
            \cup Permutations(Labels) \cup Permutations(Runs)
=============================================================================
