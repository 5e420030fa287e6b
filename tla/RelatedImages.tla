---------------------------- MODULE RelatedImages ----------------------------
(***************************************************************************)
(* The validator of a bundle's CSV (validators/related-images/main.go).    *)
(* Of a CSV it reads the containers of its deployments, init containers    *)
(* included, with image and environment, and the list of related images.   *)
(* Errors are kept as what is wrong with which image or variable.          *)
(***************************************************************************)
EXTENDS Integers, Sequences, SequencesExt

CONSTANTS
  Images,          \* image references
  DigestPinned,    \* those that are well-formed sha256 digest pullspecs
  RelatedImageEnv, \* environment variables that begin with RELATED_IMAGE_
  OtherEnv         \* other environment variables

ASSUME RelatedImagesAssumption ==
  DigestPinned \subseteq Images /\ RelatedImageEnv \cap OtherEnv = {}

Env == [name : RelatedImageEnv \cup OtherEnv, value : Images]
Container == [image : Images, env : Seq(Env)]

isSHA256DigestPullspec(image) == image \in DigestPinned

Unpinned(images) == {<<"not a sha256 digest", i>> : i \in
                        {j \in images : ~isSHA256DigestPullspec(j)}}

containerImages(csv) == {c.image : c \in Range(csv.containers)}

\* Mutant: an image listed twice is accepted.
validateListedImages(csv) ==
  [seen |-> Range(csv.relatedImages), errors |-> Unpinned(Range(csv.relatedImages))]

\* validateRelatedImages: an image the loop over the list has met before is an
\* error.
validateRelatedImages(csv) ==
  LET list == csv.relatedImages
      again == {i \in DOMAIN list : \E j \in 1..(i - 1) : list[j] = list[i]}
  IN  [seen   |-> Range(list),
       errors |-> Unpinned(Range(list))
                  \cup {<<"duplicate image", list[i]>> : i \in again}]

\* The RELATED_IMAGE_ variables of a container.
RelatedEnvs(c) == {i \in DOMAIN c.env : c.env[i].name \in RelatedImageEnv}

\* Mutant: the variables need a digest, but no entry in the list.
validateEnvDigests(c, related) == Unpinned({c.env[i].value : i \in RelatedEnvs(c)})

\* validateEnvVars for one container: a name the loop has met before is an
\* error, and its value is then not looked up.
validateEnvVars(c, related) ==
  LET again == {i \in RelatedEnvs(c) :
                  \E j \in RelatedEnvs(c) : j < i /\ c.env[j].name = c.env[i].name}
      looked == RelatedEnvs(c) \ again
  IN  Unpinned({c.env[i].value : i \in RelatedEnvs(c)})
        \cup {<<"duplicate env var", c.env[i].name>> : i \in again}
        \cup {<<"env var not listed", c.env[i].name>> :
                i \in {j \in looked : c.env[j].value \notin related}}

\* validateCSVData: the errors of all checks together.
validateCSVData(csv) ==
  LET related == validateRelatedImages(csv)
  IN  Unpinned(containerImages(csv)) \cup related.errors
        \cup (UNION {validateEnvVars(c, related.seen) : c \in Range(csv.containers)})
        \cup {<<"container image not listed", i>> : i \in containerImages(csv) \ related.seen}

-----------------------------------------------------------------------------
(***************************************************************************)
(* What the documentation asks of a CSV: every image it names is pinned,   *)
(* the list names each once, and covers every container and every          *)
(* RELATED_IMAGE_ variable, which is set once per container.  The          *)
(* documentation also asks for every operand image.  A CSV does not name   *)
(* the operand images it leaves to their defaults, so that half is a       *)
(* property of the installation: OperatorInstall!EveryOperandImageListed.  *)
(***************************************************************************)
Consistent(csv) ==
  LET listed == Range(csv.relatedImages)
  IN  /\ listed \subseteq DigestPinned
      /\ IsInjective(csv.relatedImages)
      /\ \A c \in Range(csv.containers) :
           /\ c.image \in listed
           /\ \A i \in RelatedEnvs(c) :
                /\ c.env[i].value \in listed
                /\ \A j \in RelatedEnvs(c) : c.env[i].name = c.env[j].name => i = j
=============================================================================
