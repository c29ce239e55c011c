SPECIFICATION Spec
INVARIANTS TypeOK SchemaMatchesVersions ServesItsSchema GatewayBehindSchema
PROPERTY ComesUp
