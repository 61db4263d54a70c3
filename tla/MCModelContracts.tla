-------------------------- MODULE MCModelContracts --------------------------
(***************************************************************************)
(* One object that is an entity, a code table or a technical table, the    *)
(* relation it carries, and a model that makes an SCD2 dimension of the    *)
(* object.                                                                 *)
(***************************************************************************)
EXTENDS ModelContracts

CONSTANTS o1, r1

MCObjects == {o1}
MCRelations == {r1}
MCMapping == [r \in {r1} |-> o1]
MCObjectKinds == {"business_object", "data_table", "technical"}
MCRelationKinds == {"fact_table", "foreign_key"}
MCDesigns == {"scd2_dimension"}
MCPatches ==
  {<<o1, "load", "full">>, <<o1, "materialized", "not_built">>,
   <<r1, "materialized", "built">>}
=============================================================================
