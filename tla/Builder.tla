------------------------------ MODULE Builder ------------------------------
(***************************************************************************)
(* src/src/docker/image.rs, src/src/buildx.rs and src/src/sidecar_image.rs: *)
(* where an image comes from.  All builds of fghjd share one environment    *)
(* variable, behind a lock, and one BuildKit container, behind none.        *)
(***************************************************************************)
EXTENDS Engine

VARIABLE builder
  \* env: SSH_AUTH_SOCK of the process; host: the image of buildx's own builder,
  \* None when `docker build` uses dockerd's; kit: the image fghj_buildkit runs,
  \* None without it; solving: the runs whose solve lives on it; images: what
  \* dockerd has, the sidecar's image included.

SidecarImage == "sidecar"
DEFAULT == "default"    \* what bollard's driver runs when it is told nothing
ASSUME DefaultAssumption == None \notin {DEFAULT, "v1", "v2"}

set_ssh_auth_sock(b, sock) == [b EXCEPT !.env = sock]
image_is_local(i) == i \in builder.images
\* Pulled, built and loaded images are in dockerd's store alike.
Stored(b, i) == [b EXCEPT !.images = @ \cup {i}]
\* Present, else pulled, else built: there in the end, or the caller fails.
ensure_built == builder' = Stored(builder, SidecarImage)

\* buildx's docker-container builder is followed, any other is dockerd's own.
default_builder == builder.host # None
\* What a build asks for, when buildx's container can be inspected.
buildkit_image_of == builder.host
\* The container goes by force, with whatever is being solved on it.
retire_builder_if_image_changed(b, want) ==
  IF want = DEFAULT \/ b.kit \in {want, None} THEN b ELSE [b EXCEPT !.kit = None, !.solving = {}]
\* bootstrap: a container of that name is used as it is.
Bootstrap(b, r, want) == [b EXCEPT !.kit = IF @ = None THEN want ELSE @, !.solving = @ \cup {r}]
\* Dropping the future ends the session, and with it the solve.
SolveDropped(b, r) == [b EXCEPT !.solving = @ \ {r}]
\* The exported image is loaded into dockerd.
load_image_tar(b, r, n) == Stored(SolveDropped(b, r), n)

(* By other hands.                                                         *)

BuildxUpgraded == builder.host = "v1" /\ builder' = [builder EXCEPT !.host = "v2"]
ImagePruned(n) ==
  /\ image_is_local(n) /\ box[n].status = "none"
  /\ builder' = [builder EXCEPT !.images = @ \ {n}]
=============================================================================
