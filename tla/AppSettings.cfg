CONSTANTS
    Nobody = Nobody
    Home = Home
    Reader = Reader
    Setter = Setter
    Products = {product}
    Unpaired = Unpaired
    MaxFaults = 1
    MaxTouches = 1
SPECIFICATION SettingsSpec
INVARIANTS SettingIsConfirmed
PROPERTIES SessionRecovers
