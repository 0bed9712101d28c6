------------------------------ MODULE OciUnpack ------------------------------
(***************************************************************************)
(* unpack_tar() (src/arcbox_ext4/unpack.rs): the layers of a container     *)
(* image are unpacked one over the other.  A layer removes what lies below *)
(* with whiteouts.  Its hard links are kept in a hash map until its end    *)
(* and made in whatever order the map yields them.                         *)
(***************************************************************************)
EXTENDS Import

\* .wh.<name> removes <name>; .wh..wh..opq everything its directory holds,
\* what this layer has put there included.
Whiteout(e) ==
  /\ source = "oci"
  /\ Read(e)
  /\ e.type \in {"whiteout", "opaque"}
  /\ Take(Unlink(fmt, e.path, e.type = "opaque"), "entries")
  /\ UNCHANGED <<source, size, pending, image, reader>>

\* Devices, FIFOs and sockets.
SkipLayerEntry(e) ==
  /\ source = "oci"
  /\ Read(e)
  /\ e.type = "special"
  /\ UNCHANGED <<source, size, phase, pending, fmt, image, reader>>

MakeLayerEntry(e) ==
  /\ source = "oci"
  /\ Make(e)

LinksAt(links, path) == {i \in DOMAIN links : links[i].link = path}

\* HashMap::insert(): the last link of a path counts.
KeepLink(e) ==
  /\ source = "oci"
  /\ Read(e)
  /\ e.type = "hardlink"
  /\ pending' = IF LinksAt(pending, e.path) = {}
                THEN Append(pending, [link |-> e.path, target |-> e.target])
                ELSE [i \in DOMAIN pending |->
                        IF i \in LinksAt(pending, e.path)
                        THEN [pending[i] EXCEPT !.target = e.target] ELSE pending[i]]
  /\ UNCHANGED <<source, size, phase, fmt, image, reader>>

\* Where a link leads in one step, and after as many steps as there are links.
Follow(links, path) ==
  LET at == LinksAt(links, path)
  IN IF at = {} THEN path ELSE links[CHOOSE i \in at : TRUE].target

Resolved(links, path) == FoldLeft(LAMBDA p, l : Follow(links, p), path, links)

\* check_acyclic()
Acyclic(links) ==
  \A i \in DOMAIN links : \A j \in DOMAIN links :
    Resolved(links, links[i].target) # links[j].link

\* resolve_hardlink() of every link of the layer.
EndOfLayer ==
  /\ source = "oci"
  /\ phase = "entries"
  /\ phase' = IF Acyclic(pending) THEN "links" ELSE "failed"
  /\ pending' = [i \in DOMAIN pending |->
                   [pending[i] EXCEPT !.target = Resolved(pending, @)]]
  /\ UNCHANGED <<source, size, seen, fmt, image, reader>>

MakeAnyLink ==
  /\ source = "oci"
  /\ phase = "links"
  /\ \E i \in DOMAIN pending :
       /\ Take(Link(fmt, pending[i].link, pending[i].target), "links")
       /\ pending' = RemoveAt(pending, i)
  /\ UNCHANGED <<source, size, seen, image, reader>>

\* The next layer goes over this one.
NextLayer ==
  /\ source = "oci"
  /\ phase = "links"
  /\ pending = <<>>
  /\ Len(seen) < MaxEntries[source]
  /\ phase' = "entries"
  /\ UNCHANGED <<source, size, seen, pending, fmt, image, reader>>

UnpackLayers ==
  \/ \E e \in Entries[source] : \/ Whiteout(e) \/ SkipLayerEntry(e)
                                \/ MakeLayerEntry(e) \/ KeepLink(e)
  \/ EndOfLayer
  \/ MakeAnyLink
  \/ NextLayer
=============================================================================
